---- MODULE Spec2Model ----
(***************************************************************************)
(* PANARCHY: the deterministic tick engine (Engine::run, RngManager, the   *)
(* snapshot writer, the web embedding's hook) and the simulation kernel    *)
(* (the eight systems run over the world's component maps).                *)
(*                                                                         *)
(* f64 quantities are fixed-point integers in units of 1/SCALE; products   *)
(* and quotients are rescaled with \div (rounding toward minus infinity).  *)
(***************************************************************************)
EXTENDS Integers, Sequences, FiniteSets, TLC

VARIABLES settings, world, rng, eng, invoked, files, web, runB, hist

vars == <<settings, world, rng, eng, invoked, files, web, runB, hist>>

---------------------------------------------------------------------------
(* Bounds of the model                                                     *)

MaxTicks == 3
MaxT0 == 1
MaxInterval == 2
MaxSeed == 1
MaxRegions == 2
MaxDraws == 2
SCALE == 100
WordModulus == 64

Dec(n, d) == (n * SCALE) \div d

---------------------------------------------------------------------------
(* f64 arithmetic on the fixed-point grid                                  *)

Max(a, b) == IF a >= b THEN a ELSE b

Min(a, b) == IF a <= b THEN a ELSE b

\* f64::clamp(lo, hi)
Clamp(x, lo, hi) == IF x < lo THEN lo ELSE IF x > hi THEN hi ELSE x

Mul(a, b) == (a * b) \div SCALE

Div(a, b) == (a * SCALE) \div b

\* n as f64
FromInt(n) == n * SCALE

\* A posted price is kept in units of 1 / SCALE^2, so that a rise by
\* adjustment_rate * shortage_ratio of some thousandths is not lost
Posted(x) == x * SCALE

\* amount * price, for a posted price
Worth(amount, price) == (amount * price) \div (SCALE * SCALE)

\* f64::round() as i64: to the nearest integer, halves away from zero
Round(x) ==
    IF x >= 0 THEN (2 * x + SCALE) \div (2 * SCALE)
    ELSE -((2 * (-x) + SCALE) \div (2 * SCALE))

\* f64::ceil() as i64
Ceil(x) == -((-x) \div SCALE)

\* const EPS: f64 = 1e-9, the smallest positive step of the grid
EPS == 1

DaysPerYear == 365

\* Mutant: the value is left as it was
Grow_skipped(x, k, p) == x

\* x *= 1.0 + k * p: the factor is kept at full precision, so that a small
\* k * p still moves x
Grow(x, k, p) == (x * (SCALE * SCALE + k * p)) \div (SCALE * SCALE)

\* x * (dt_days / 365.0), with the division applied last so that the grid
\* keeps the fraction of a year
TimesYears(x, dt) == (x * dt) \div (DaysPerYear * SCALE)

---------------------------------------------------------------------------
(* rng.rs: RngManager and its ChaCha8 substreams.  A generator is its seed *)
(* and its position in 32-bit words; the word at a position is a fixed     *)
(* mixing function of the two.                                             *)

SeedBytes == 32

Mix(seed, pos) == ((seed + 1) * 31 + pos * 17 + seed * pos * 7) % WordModulus

seed_from_u64(seed) == [seed |-> seed, pos |-> 0]

next_u32(g) == [value |-> Mix(g.seed, g.pos), rng |-> [g EXCEPT !.pos = @ + 1]]

\* fill_bytes(&mut [0u8; 32]) followed by u64::from_le_bytes(seed_bytes[..8])
derive_seed(master) ==
    [value |-> Mix(master.seed, master.pos)
                 + WordModulus * Mix(master.seed, master.pos + 1),
     rng |-> [master EXCEPT !.pos = @ + SeedBytes \div 4]]

RngManager_new(seed) == [master |-> seed_from_u64(seed), streams |-> << >>]

HasStream(m, name) == name \in DOMAIN m.streams

\* Mutant: every request seeds a fresh substream from the master
stream_reseed(m, name) ==
    LET d == derive_seed(m.master)
    IN [master |-> d.rng,
        streams |-> [n \in DOMAIN m.streams \cup {name} |->
                        IF n = name THEN seed_from_u64(d.value)
                        ELSE m.streams[n]]]

\* streams.entry(name).or_insert_with(|| seed from master)
stream(m, name) ==
    IF HasStream(m, name)
    THEN m
    ELSE LET d == derive_seed(m.master)
         IN [master |-> d.rng,
             streams |-> m.streams @@ (name :> seed_from_u64(d.value))]

next_u64(g) ==
    LET lo == next_u32(g)
        hi == next_u32(lo.rng)
    IN [value |-> lo.value + WordModulus * hi.value, rng |-> hi.rng]

\* rand's gen_range(lo..hi) for f64: one 64-bit draw scaled into [lo, hi)
gen_range(g, lo, hi) ==
    LET d == next_u64(g)
    IN [value |-> lo + ((hi - lo) * d.value) \div (WordModulus * WordModulus),
        rng |-> d.rng]

RECURSIVE Draws(_, _)
Draws(g, n) ==
    IF n = 0 THEN [values |-> << >>, rng |-> g]
    ELSE LET d == next_u64(g)
             rest == Draws(d.rng, n - 1)
         IN [values |-> <<d.value>> \o rest.values, rng |-> rest.rng]

\* Mutant: the lease reads the master generator instead of the substream
Draw_from_master(m, name, n) ==
    LET d == Draws(m.master, n)
    IN [values |-> d.values, rng |-> [m EXCEPT !.master = d.rng]]

\* n values taken through the lease SystemRng { inner: &mut streams[name] }
Draw(m, name, n) ==
    LET d == Draws(m.streams[name], n)
    IN [values |-> d.values, rng |-> [m EXCEPT !.streams[name] = d.rng]]

---------------------------------------------------------------------------
(* technology.rs: the catalog of technologies, in declaration order        *)

TECH_TREE ==
    << [id |-> "adaptive_farming", difficulty |-> Dec(12000, 1),
        food_multiplier |-> Dec(108, 100), energy_multiplier |-> Dec(1, 1),
        prerequisites |-> {}],
       [id |-> "grid_storage", difficulty |-> Dec(16000, 1),
        food_multiplier |-> Dec(1, 1), energy_multiplier |-> Dec(112, 100),
        prerequisites |-> {"adaptive_farming"}],
       [id |-> "automation_lines", difficulty |-> Dec(22500, 1),
        food_multiplier |-> Dec(106, 100), energy_multiplier |-> Dec(105, 100),
        prerequisites |-> {"adaptive_farming"}],
       [id |-> "circular_economy", difficulty |-> Dec(30000, 1),
        food_multiplier |-> Dec(104, 100), energy_multiplier |-> Dec(108, 100),
        prerequisites |-> {"grid_storage", "automation_lines"}] >>

\* The elements of a Vec, as a set
Elems(seq) == {seq[i] : i \in 1..Len(seq)}

\* TECH_TREE.iter().find(|def| def.id == id), as the set of its hits
definition(id) == {def \in Elems(TECH_TREE) : def.id = id}

\* Mutant: the first entry whose prerequisites are unlocked, unlocked or not
next_available_unfiltered(unlocked) ==
    LET open == {i \in 1..Len(TECH_TREE) :
                    TECH_TREE[i].prerequisites \subseteq Elems(unlocked)}
    IN IF open = {} THEN << >>
       ELSE << TECH_TREE[CHOOSE i \in open : \A j \in open : i <= j] >>

\* Mutant: the last entry not yet unlocked, whatever its prerequisites
next_available_unready(unlocked) ==
    LET open == {i \in 1..Len(TECH_TREE) :
                    TECH_TREE[i].id \notin Elems(unlocked)}
    IN IF open = {} THEN << >>
       ELSE << TECH_TREE[CHOOSE i \in open : \A j \in open : i >= j] >>

\* Mutant: the last such entry of the catalog instead of the first
next_available_last(unlocked) ==
    LET open == {i \in 1..Len(TECH_TREE) :
                    /\ TECH_TREE[i].id \notin Elems(unlocked)
                    /\ TECH_TREE[i].prerequisites \subseteq Elems(unlocked)}
    IN IF open = {} THEN << >>
       ELSE << TECH_TREE[CHOOSE i \in open : \A j \in open : i >= j] >>

\* The first entry not yet unlocked whose prerequisites all are, or none
next_available(unlocked) ==
    LET open == {i \in 1..Len(TECH_TREE) :
                    /\ TECH_TREE[i].id \notin Elems(unlocked)
                    /\ TECH_TREE[i].prerequisites \subseteq Elems(unlocked)}
    IN IF open = {} THEN << >>
       ELSE << TECH_TREE[CHOOSE i \in open : \A j \in open : i <= j] >>

RECURSIVE aggregate_productivity_multipliers(_)
aggregate_productivity_multipliers(unlocked) ==
    IF unlocked = << >> THEN [food |-> Dec(1, 1), energy |-> Dec(1, 1)]
    ELSE LET n == Len(unlocked)
             rest == aggregate_productivity_multipliers(SubSeq(unlocked, 1, n - 1))
             defs == definition(unlocked[n])
         IN IF defs = {} THEN rest
            ELSE LET def == CHOOSE d \in defs : TRUE
                 IN [food |-> Mul(rest.food, def.food_multiplier),
                     energy |-> Mul(rest.energy, def.energy_multiplier)]

---------------------------------------------------------------------------
(* world.rs: the component maps, the tick counter, the snapshot view       *)

World_new(dt_days) ==
    [tick |-> 0, days_elapsed |-> 0, dt_days |-> dt_days,
     regions |-> << >>, populations |-> << >>, economies |-> << >>,
     resources |-> << >>, finances |-> << >>, infrastructure |-> << >>,
     technology |-> << >>, policies |-> << >>,
     bookkeeping |-> [starving_regions |-> << >>]]

\* ResourceStock::clamp_non_negative
clamp_non_negative(stock) ==
    [food |-> Max(stock.food, 0), energy |-> Max(stock.energy, 0)]

advance_time(w) ==
    [w EXCEPT !.tick = @ + 1, !.days_elapsed = @ + w.dt_days]

RECURSIVE SumCitizens(_, _)
SumCitizens(pops, ids) ==
    IF ids = {} THEN 0
    ELSE LET id == CHOOSE i \in ids : TRUE
         IN pops[id].citizens + SumCitizens(pops, ids \ {id})

total_population(w) == SumCitizens(w.populations, DOMAIN w.populations)

\* The orders in which a HashMap with these keys may be iterated
HashOrders(keys) ==
    {s \in [1..Cardinality(keys) -> keys] :
        \A i, j \in 1..Cardinality(keys) : s[i] = s[j] => i = j}

\* Mutant: the ids are used in the order the map yields them
sort_skipped(ids) == ids

\* ids.sort()
sort(ids) == SortSeq(ids, LAMBDA a, b : a < b)

RegionSnapshot(w, id) ==
    LET population == w.populations[id]
        economy == w.economies[id]
        stock == w.resources[id]
        finance == w.finances[id]
        infra == w.infrastructure[id]
    IN [id |-> id,
        name |-> w.regions[id].name,
        citizens |-> population.citizens,
        employed |-> population.employed,
        unemployment_rate |->
            IF population.citizens > 0
            THEN Dec(1, 1) - Div(FromInt(population.employed),
                                 FromInt(population.citizens))
            ELSE 0,
        food |-> stock.food,
        energy |-> stock.energy,
        wage |-> economy.wage,
        labor_demand |-> economy.labor_demand,
        household_budget |-> economy.household_budget,
        food_price |-> economy.food_price,
        energy_price |-> economy.energy_price,
        food_shortage_ratio |-> economy.food_shortage_ratio,
        energy_shortage_ratio |-> economy.energy_shortage_ratio,
        bank_deposits |-> finance.bank_deposits,
        loan_balance |-> finance.loan_balance,
        credit_stress |-> finance.credit_stress,
        power_capacity |-> infra.power_capacity,
        transport_capacity |-> infra.transport_capacity,
        infrastructure_reliability |-> infra.reliability]

\* World::snapshot: one RegionSnapshot per entry of the regions map in the
\* order the map yields them (keys), then regions.sort_by_key(|r| r.id)
snapshot(w, keys) ==
    LET pushed == [i \in 1..Len(keys) |-> RegionSnapshot(w, keys[i])]
    IN [tick |-> w.tick,
        days_elapsed |-> w.days_elapsed,
        total_population |-> total_population(w),
        starving_regions |-> w.bookkeeping.starving_regions,
        regions |-> SortSeq(pushed, LAMBDA a, b : a.id < b.id)]

---------------------------------------------------------------------------
(* scenario.rs: Scenario::build_world                                      *)

\* The components spawn_region inserts under the id of the i-th region
Spawned(region) ==
    LET employed == Clamp(Round(Mul(FromInt(region.citizens),
                                    region.employment_rate)),
                          0, region.citizens)
        transfer_per_capita ==
            IF region.transfer_per_capita = << >>
            THEN region.basic_income_per_capita
            ELSE region.transfer_per_capita[1]
        mult == aggregate_productivity_multipliers(region.starting_techs)
    IN [region |->
            [name |-> region.name,
             food_regen_per_1000 |-> region.food_per_1000,
             energy_regen_per_1000 |-> region.energy_per_1000],
        population |->
            [citizens |-> region.citizens,
             employed |-> employed,
             annual_birth_rate |-> region.annual_birth_rate,
             annual_death_rate |-> region.annual_death_rate,
             food_consumption_per_capita |-> region.food_consumption_per_capita,
             energy_consumption_per_capita |-> region.energy_consumption_per_capita,
             target_employment_rate |-> region.employment_rate],
        economy |->
            [food_productivity_per_worker |->
                 Mul(region.food_productivity_per_worker, mult.food),
             energy_productivity_per_worker |->
                 Mul(region.energy_productivity_per_worker, mult.energy),
             wage |-> region.wage_per_worker,
             target_inventory_days |-> region.target_inventory_days,
             price_adjustment_rate |-> region.price_adjustment_rate,
             wage_adjustment_rate |-> region.wage_adjustment_rate,
             job_matching_efficiency |-> region.job_matching_efficiency,
             basic_income_per_capita |-> transfer_per_capita,
             propensity_to_consume |-> region.propensity_to_consume,
             food_price |-> Posted(region.food_price),
             energy_price |-> Posted(region.energy_price),
             labor_demand |-> FromInt(employed),
             household_budget |-> 0,
             food_shortage_ratio |-> 0,
             energy_shortage_ratio |-> 0,
             wage_bill |-> 0,
             sales_revenue |-> 0,
             energy_dispatched |-> 0,
             energy_curtailed |-> 0,
             transport_utilization |-> 0,
             transport_shortfall |-> 0],
        stock |-> [food |-> region.food, energy |-> region.energy],
        finance |->
            [bank_deposits |-> region.initial_deposits,
             loan_balance |-> region.initial_loans,
             policy_rate |-> region.policy_rate,
             loan_rate_spread |-> region.loan_rate_spread,
             deposit_rate |-> region.deposit_rate,
             default_rate |-> region.default_rate,
             target_loan_to_deposit |-> region.target_loan_to_deposit,
             infrastructure_spend_fraction |-> region.infrastructure_spend_fraction,
             credit_stress |-> 0,
             cumulative_defaults |-> 0],
        infrastructure |->
            [power_capacity |-> region.power_capacity,
             transport_capacity |-> region.transport_capacity,
             maintenance_cost |-> region.maintenance_cost,
             degradation_rate |-> region.degradation_rate,
             reliability |-> Dec(1, 1),
             pending_investment |-> 0],
        technology |->
            [base_food_productivity |-> region.food_productivity_per_worker,
             base_energy_productivity |-> region.energy_productivity_per_worker,
             unlocked |-> region.starting_techs,
             active_project |-> << >>,
             research_efficiency |-> region.research_efficiency,
             baseline_rnd_budget_per_capita |-> region.rnd_budget_per_capita,
             current_allocation |-> 0,
             innovation_score |-> 0],
        policy |->
            [tax_rate |-> region.tax_rate,
             transfer_per_capita |-> transfer_per_capita,
             public_investment_fraction |-> region.public_investment_fraction,
             rnd_fraction |-> region.rnd_fraction,
             target_unemployment_rate |-> region.target_unemployment_rate,
             target_primary_balance |-> region.target_primary_balance,
             budget_balance |-> 0,
             public_debt |-> 0,
             approval_rating |-> Dec(65, 100),
             last_tax_revenue |-> 0,
             last_transfers |-> 0,
             last_public_investment |-> 0,
             last_rnd_allocation |-> 0]]

\* Entity ids are allocated from 0 in the order of the scenario's regions
build_world(scenario) ==
    LET ids == 0..(Len(scenario.regions) - 1)
        c == [id \in ids |-> Spawned(scenario.regions[id + 1])]
    IN [World_new(scenario.dt_days) EXCEPT
            !.regions = [id \in ids |-> c[id].region],
            !.populations = [id \in ids |-> c[id].population],
            !.economies = [id \in ids |-> c[id].economy],
            !.resources = [id \in ids |-> c[id].stock],
            !.finances = [id \in ids |-> c[id].finance],
            !.infrastructure = [id \in ids |-> c[id].infrastructure],
            !.technology = [id \in ids |-> c[id].technology],
            !.policies = [id \in ids |-> c[id].policy]]

\* A region of a scenario file: a small island economy
BaseRegion ==
    [name |-> "isle",
     citizens |-> 12,
     employment_rate |-> Dec(65, 100),
     annual_birth_rate |-> 0,
     annual_death_rate |-> 0,
     food_consumption_per_capita |-> Dec(1, 1),
     energy_consumption_per_capita |-> Dec(1, 2),
     food_per_1000 |-> Dec(10, 1),
     energy_per_1000 |-> Dec(5, 1),
     food |-> Dec(30, 1),
     energy |-> Dec(30, 1),
     food_productivity_per_worker |-> Dec(4, 1),
     energy_productivity_per_worker |-> Dec(4, 1),
     wage_per_worker |-> Dec(2, 1),
     food_price |-> Dec(2, 1),
     energy_price |-> Dec(125, 100),
     target_inventory_days |-> Dec(2, 1),
     price_adjustment_rate |-> Dec(2, 10),
     wage_adjustment_rate |-> Dec(2, 10),
     job_matching_efficiency |-> Dec(92, 100),
     basic_income_per_capita |-> Dec(5, 1),
     propensity_to_consume |-> Dec(9, 10),
     initial_deposits |-> Dec(100, 1),
     initial_loans |-> 0,
     policy_rate |-> Dec(2, 100),
     loan_rate_spread |-> Dec(2, 100),
     deposit_rate |-> Dec(1, 100),
     default_rate |-> Dec(1, 100),
     target_loan_to_deposit |-> Dec(9, 10),
     infrastructure_spend_fraction |-> Dec(12, 100),
     power_capacity |-> Dec(100, 1),
     transport_capacity |-> Dec(100, 1),
     maintenance_cost |-> Dec(1, 1),
     degradation_rate |-> Dec(1, 10),
     tax_rate |-> Dec(24, 100),
     transfer_per_capita |-> << >>,
     public_investment_fraction |-> Dec(18, 100),
     rnd_fraction |-> Dec(12, 100),
     target_unemployment_rate |-> Dec(7, 100),
     target_primary_balance |-> 0,
     rnd_budget_per_capita |-> Dec(8, 1),
     research_efficiency |-> Dec(1, 1),
     starting_techs |-> << >>]

\* A scenario of n such regions
BaseScenario(n, dt_days) ==
    [dt_days |-> dt_days, regions |-> [i \in 1..n |-> BaseRegion]]

---------------------------------------------------------------------------
(* systems/*.rs: the systems of the standard pipeline.  A system is given  *)
(* the world, its substream and the order (keys) in which its component    *)
(* map yields its keys; it visits the regions one after the other.         *)

\* environment.rs: regeneration of the stocks of one region
EnvironmentRegion(st, id, dt) ==
    LET w == st.world
        region == w.regions[id]
        pop == w.populations[id]
        stock == w.resources[id]
        thousands == Max(Div(FromInt(pop.citizens), FromInt(1000)), Dec(1, 10))
        fluctuation == gen_range(st.rng, Dec(95, 100), Dec(105, 100))
        food_gain == Mul(Mul(Mul(region.food_regen_per_1000, thousands), dt),
                         fluctuation.value)
        energy_gain == Mul(Mul(Mul(region.energy_regen_per_1000, thousands), dt),
                           fluctuation.value)
    IN [world |-> [w EXCEPT !.resources[id] =
                      [food |-> stock.food + Max(food_gain, 0),
                       energy |-> stock.energy + Max(energy_gain, 0)]],
        rng |-> fluctuation.rng]

\* Mutant: the whole outflow is taken from the deposits, covered or not
draw_down_overdraft(finance, need) ==
    [finance EXCEPT !.bank_deposits = @ - need]

\* Mutant: the whole outflow is borrowed, whatever the deposits hold
draw_down_loans_first(finance, need) ==
    [finance EXCEPT !.loan_balance = @ + need]

\* An outflow of need > 0 charged to a region: the deposits pay first and
\* what they do not cover is added to the loans (infrastructure.rs 85-91,
\* finance.rs 66-73)
draw_down(finance, need) ==
    IF finance.bank_deposits >= need
    THEN [finance EXCEPT !.bank_deposits = @ - need]
    ELSE [finance EXCEPT
            !.bank_deposits = 0,
            !.loan_balance = @ + (need - finance.bank_deposits)]

\* infrastructure.rs 53: the share of the capacities a tick wears off
degrade_of(infra, dt) == Clamp(Mul(infra.degradation_rate, dt), 0, Dec(1, 2))

\* infrastructure.rs 66-72: 1 - outage_penalty, from what Economy last wrote
reliability_score(econ) ==
    LET energy_flow == Max(econ.energy_dispatched + econ.energy_curtailed, EPS)
        curtailed_share ==
            Clamp(Div(econ.energy_curtailed, energy_flow), 0, Dec(1, 1))
        outage_penalty == Mul(econ.energy_shortage_ratio, Dec(6, 10))
                            + Mul(econ.transport_shortfall, Dec(3, 10))
                            + Mul(curtailed_share, Dec(1, 10))
    IN Clamp(Dec(1, 1) - outage_penalty, 0, Dec(1, 1))

\* Mutant: the blend comes first and the decay is applied to its result
blend_then_decay(old, degrade, score) ==
    Clamp(Mul(Mul(old, Dec(7, 10)) + Mul(score, Dec(3, 10)),
              Dec(1, 1) - Mul(degrade, Dec(4, 10))),
          0, Dec(1, 1))

\* infrastructure.rs 73-75: the old reliability decays, then it is blended
\* with the score
decay_then_blend(old, degrade, score) ==
    Clamp(Mul(Mul(old, Dec(1, 1) - Mul(degrade, Dec(4, 10))), Dec(7, 10))
            + Mul(score, Dec(3, 10)),
          0, Dec(1, 1))

\* infrastructure.rs: decay, realised investment, reliability, maintenance
InfrastructureRegion(st, id, dt) ==
    LET w == st.world
        econ == w.economies[id]
        infra == w.infrastructure[id]
        finance == w.finances[id]
        degrade == degrade_of(infra, dt)
        power0 == Max(Mul(infra.power_capacity, Dec(1, 1) - degrade), 0)
        transport0 ==
            Max(Mul(infra.transport_capacity,
                    Dec(1, 1) - Mul(degrade, Dec(8, 10))), 0)
        realized == Min(Mul(infra.pending_investment, Dec(2, 10)),
                        infra.pending_investment)
        reliability ==
            decay_then_blend(infra.reliability, degrade, reliability_score(econ))
        maintenance_cost == Mul(infra.maintenance_cost, dt)
        infra1 == [infra EXCEPT
                     !.power_capacity =
                         IF realized > 0 THEN power0 + Mul(realized, Dec(6, 10))
                         ELSE power0,
                     !.transport_capacity =
                         IF realized > 0 THEN transport0 + Mul(realized, Dec(4, 10))
                         ELSE transport0,
                     !.pending_investment =
                         IF realized > 0 THEN @ - realized ELSE @,
                     !.reliability = reliability]
        finance1 == IF maintenance_cost > 0
                    THEN draw_down(finance, maintenance_cost)
                    ELSE finance
    IN [world |-> [w EXCEPT !.infrastructure[id] = infra1,
                            !.finances[id] = finance1],
        rng |-> st.rng]

\* n / d rounded up, for a product kept at full precision before .ceil()
CeilDiv(n, d) == -((-n) \div d)

\* Mutant: the new employment is not capped at the new number of citizens
cap_employed_skipped(employed, citizens) == employed

\* population.employed = employed.min(population.citizens)
cap_employed(employed, citizens) == Min(employed, citizens)

\* population.rs: births, deaths, starvation and employment of one region
PopulationRegion(st, id, dt) ==
    LET w == st.world
        region_name == w.regions[id].name
        population == w.populations[id]
        econ == w.economies[id]
        labor_demand == econ.labor_demand
        matching_efficiency == econ.job_matching_efficiency
        food_shortage_ratio == econ.food_shortage_ratio
        citizens == FromInt(population.citizens)
        births == Round(TimesYears(Mul(citizens, population.annual_birth_rate), dt))
        deaths == Round(TimesYears(Mul(citizens, population.annual_death_rate), dt))
        starvation_penalty ==
            CeilDiv(population.citizens * food_shortage_ratio * Dec(5, 100),
                    SCALE * SCALE)
        net_delta == IF starvation_penalty > 0
                     THEN births - deaths - starvation_penalty
                     ELSE births - deaths
        shock == gen_range(st.rng, Dec(975, 1000), Dec(1025, 1000))
        desired_employment ==
            Round(Mul(Mul(labor_demand, matching_efficiency), shock.value))
        employed == Max(Clamp(desired_employment, 0, population.citizens), 0)
        next_citizens == Max(population.citizens + net_delta, 0)
    IN [world |->
            [w EXCEPT
                !.populations[id] =
                    [population EXCEPT
                        !.citizens = next_citizens,
                        !.employed = cap_employed(employed, next_citizens)],
                !.bookkeeping.starving_regions =
                    IF starvation_penalty > 0 THEN Append(@, region_name) ELSE @],
        rng |-> shock.rng]

\* Mutant: a shortage leaves the price where it was
adjust_price_deaf(price, shortage_ratio, inventory, target_inventory, adjustment_rate) ==
    LET ratio == IF target_inventory > EPS THEN Div(inventory, target_inventory)
                 ELSE Dec(1, 1)
        drop == Min(Div(ratio - Dec(1, 1), ratio), Dec(1, 2))
        next_price ==
            IF shortage_ratio <= Dec(1, 1000) /\ ratio > Dec(115, 100)
            THEN Mul(price, Dec(1, 1) - Mul(adjustment_rate, drop))
            ELSE price
    IN Max(next_price, Posted(Dec(1, 10)))

\* economy.rs: fn adjust_price, on posted prices
adjust_price(price, shortage_ratio, inventory, target_inventory, adjustment_rate) ==
    LET ratio == IF target_inventory > EPS THEN Div(inventory, target_inventory)
                 ELSE Dec(1, 1)
        drop == Min(Div(ratio - Dec(1, 1), ratio), Dec(1, 2))
        next_price ==
            IF shortage_ratio > Dec(1, 1000)
            THEN Grow(price, adjustment_rate, Min(shortage_ratio, Dec(1, 1)))
            ELSE IF ratio > Dec(115, 100)
                 THEN Mul(price, Dec(1, 1) - Mul(adjustment_rate, drop))
                 ELSE price
    IN Max(next_price, Posted(Dec(1, 10)))

\* economy.rs: fn adjust_wages
adjust_wages(wage, rate, labor_demand, employed, citizens) ==
    IF citizens <= 0 THEN wage
    ELSE LET gap == labor_demand - employed
             gap_ratio == Clamp(Div(gap, citizens), -Dec(1, 2), Dec(1, 2))
             next == Mul(wage, Dec(1, 1) + Mul(rate, gap_ratio))
         IN Max(next, Dec(1, 1))

\* Mutant: everything deliverable is sold, whatever the stock holds
sold_unchecked(deliverable, stock) == deliverable

\* let sold_food = deliverable_food.min(stock.food)
sold(deliverable, stock) == Min(deliverable, stock)

\* Mutant: the unmet share of the desired amount is stored as computed
shortage_ratio_unclamped(desired, sold_amount) ==
    IF desired > EPS
    THEN Div(Max(desired - sold_amount, 0), desired)
    ELSE 0

\* The unmet share of the desired amount of a good (economy.rs 174-183)
shortage_ratio(desired, sold_amount) ==
    IF desired > EPS
    THEN Clamp(Div(Max(desired - sold_amount, 0), desired), 0, Dec(1, 1))
    ELSE 0

\* economy.rs 118-136: what the households of a region ask for in a tick,
\* scaled down to what their budget buys at the posted prices
scaled_demand(pop, economy, dt) ==
    LET citizens == FromInt(pop.citizens)
        employed == FromInt(pop.employed)
        desired_food == Mul(Mul(citizens, pop.food_consumption_per_capita), dt)
        desired_energy == Mul(Mul(citizens, pop.energy_consumption_per_capita), dt)
        wage_income == Mul(Mul(economy.wage, employed), dt)
        unemployed == Max(citizens - employed, 0)
        basic_income == Mul(Mul(economy.basic_income_per_capita, unemployed), dt)
        budget == Mul(Max(wage_income + basic_income, 0),
                      economy.propensity_to_consume)
        desired_cost == Worth(desired_food, economy.food_price)
                          + Worth(desired_energy, economy.energy_price)
        demand_scale == IF desired_cost > EPS
                        THEN Clamp(Div(budget, desired_cost), 0, Dec(1, 1))
                        ELSE 0
    IN [budget |-> budget,
        food |-> Mul(desired_food, demand_scale),
        energy |-> Mul(desired_energy, demand_scale)]

\* Mutant: the dispatch is never scaled to the transport capacity
transport_ratio_unlimited(capacity_per_tick, total_dispatch) == Dec(1, 1)

\* economy.rs 144-151: the share of the dispatch the transport can carry
transport_ratio(capacity_per_tick, total_dispatch) ==
    IF /\ capacity_per_tick < total_dispatch - EPS
       /\ total_dispatch > EPS
    THEN Clamp(Div(capacity_per_tick, total_dispatch), 0, Dec(1, 1))
    ELSE Dec(1, 1)

\* economy.rs: labour demand, production, dispatch, sales, prices, wages
EconomyRegion(st, id, dt) ==
    LET w == st.world
        pop == w.populations[id]
        stock == w.resources[id]
        economy == w.economies[id]
        infra == w.infrastructure[id]
        citizens == FromInt(pop.citizens)
        employed == FromInt(pop.employed)
        desired_food == Mul(Mul(citizens, pop.food_consumption_per_capita), dt)
        desired_energy == Mul(Mul(citizens, pop.energy_consumption_per_capita), dt)
        inventory_target_food == Mul(desired_food, economy.target_inventory_days)
        inventory_target_energy == Mul(desired_energy, economy.target_inventory_days)
        food_gap == Max(inventory_target_food - stock.food, 0)
        energy_gap == Max(inventory_target_energy - stock.energy, 0)
        per_worker_food == Max(Mul(economy.food_productivity_per_worker, dt), EPS)
        per_worker_energy == Max(Mul(economy.energy_productivity_per_worker, dt), EPS)
        labor_needed_food == Div(desired_food + food_gap, per_worker_food)
        labor_needed_energy == Div(desired_energy + energy_gap, per_worker_energy)
        total_labor_needed == labor_needed_food + labor_needed_energy
        food_workers ==
            IF total_labor_needed > EPS
            THEN Mul(employed, Div(labor_needed_food, total_labor_needed))
            ELSE Mul(employed, Dec(1, 2))
        energy_workers ==
            IF total_labor_needed > EPS
            THEN Mul(employed, Div(labor_needed_energy, total_labor_needed))
            ELSE Mul(employed, Dec(1, 2))
        food_produced == stock.food + Mul(food_workers, per_worker_food)
        energy_output == Mul(energy_workers, per_worker_energy)
        max_energy_dispatch == Max(Mul(infra.power_capacity, dt), 0)
        energy_dispatched == Min(energy_output, max_energy_dispatch)
        curtailed_energy == Max(energy_output - energy_dispatched, 0)
        energy_produced == stock.energy + energy_dispatched
        wage_income == Mul(Mul(economy.wage, employed), dt)
        scaled == scaled_demand(pop, economy, dt)
        budget == scaled.budget
        transport_capacity_per_tick == Max(Mul(infra.transport_capacity, dt), 0)
        total_dispatch == scaled.food + scaled.energy
        ratio == transport_ratio(transport_capacity_per_tick, total_dispatch)
        deliverable_food == Mul(scaled.food, ratio)
        deliverable_energy == Mul(scaled.energy, ratio)
        sold_food == sold(deliverable_food, food_produced)
        sold_energy == sold(deliverable_energy, energy_produced)
        delivered_total == sold_food + sold_energy
        transport_utilization ==
            IF transport_capacity_per_tick > EPS
            THEN Clamp(Div(delivered_total, transport_capacity_per_tick),
                       0, Dec(1, 1))
            ELSE 0
        transport_shortfall ==
            IF total_dispatch > EPS
            THEN Clamp(Div(Max(total_dispatch - delivered_total, 0),
                           total_dispatch), 0, Dec(1, 1))
            ELSE 0
        food_shortage_ratio == shortage_ratio(desired_food, sold_food)
        energy_shortage_ratio == shortage_ratio(desired_energy, sold_energy)
        labor_demand == Max(total_labor_needed, 0)
        idle == [economy EXCEPT
                    !.labor_demand = 0, !.household_budget = 0,
                    !.food_shortage_ratio = 0, !.energy_shortage_ratio = 0,
                    !.energy_dispatched = 0, !.energy_curtailed = 0,
                    !.transport_utilization = 0, !.transport_shortfall = 0,
                    !.wage_bill = 0, !.sales_revenue = 0]
        active == [economy EXCEPT
                    !.labor_demand = labor_demand,
                    !.energy_dispatched = energy_dispatched,
                    !.energy_curtailed = curtailed_energy,
                    !.household_budget = budget,
                    !.wage_bill = wage_income,
                    !.transport_utilization = transport_utilization,
                    !.transport_shortfall = transport_shortfall,
                    !.food_shortage_ratio = food_shortage_ratio,
                    !.energy_shortage_ratio = energy_shortage_ratio,
                    !.sales_revenue = Worth(sold_food, economy.food_price)
                                        + Worth(sold_energy, economy.energy_price),
                    !.food_price =
                        adjust_price(@, food_shortage_ratio,
                                     food_produced - sold_food,
                                     inventory_target_food,
                                     economy.price_adjustment_rate),
                    !.energy_price =
                        adjust_price(@, energy_shortage_ratio,
                                     energy_produced - sold_energy,
                                     inventory_target_energy,
                                     economy.price_adjustment_rate),
                    !.wage = adjust_wages(@, economy.wage_adjustment_rate,
                                          labor_demand, employed, citizens)]
    IN IF citizens <= 0
       THEN [world |-> [w EXCEPT !.economies[id] = idle], rng |-> st.rng]
       ELSE [world |-> [w EXCEPT
                          !.economies[id] = active,
                          !.resources[id] =
                              [food |-> food_produced - sold_food,
                               energy |-> energy_produced - sold_energy]],
             rng |-> st.rng]

\* finance.rs 76-82: a positive loan balance and positive deposits accrue
\* interest at their yearly rates
accrue_interest(finance, dt) ==
    LET loan_rate == Max(finance.policy_rate + finance.loan_rate_spread, 0)
    IN [finance EXCEPT
          !.loan_balance =
              IF @ > 0 THEN Mul(@, Dec(1, 1) + TimesYears(loan_rate, dt))
              ELSE @,
          !.bank_deposits =
              IF @ > 0
              THEN Mul(@, Dec(1, 1) + TimesYears(Max(finance.deposit_rate, 0), dt))
              ELSE @]

\* Mutant: the defaults booked are capped at the balance they are taken from
write_off_capped(finance, econ, dt) ==
    LET stress_signal ==
            Mul(econ.food_shortage_ratio + econ.energy_shortage_ratio, Dec(1, 2))
              + Mul(econ.transport_shortfall, Dec(1, 2))
        stress == Clamp(stress_signal, 0, Dec(2, 1))
        credit_stress == Mul(finance.credit_stress, Dec(85, 100))
                           + Mul(stress, Dec(15, 100))
        default_rate == Mul(finance.default_rate, Dec(1, 1) + credit_stress)
        defaults == Min(TimesYears(Mul(finance.loan_balance, default_rate), dt),
                        finance.loan_balance)
    IN [finance EXCEPT
          !.credit_stress = credit_stress,
          !.loan_balance = IF @ > 0 THEN Max(@ - defaults, 0) ELSE @,
          !.cumulative_defaults =
              IF finance.loan_balance > 0 THEN @ + defaults ELSE @]

\* finance.rs 84-94: the credit stress is smoothed, then a share of a
\* positive loan balance defaults and is written off
write_off(finance, econ, dt) ==
    LET stress_signal ==
            Mul(econ.food_shortage_ratio + econ.energy_shortage_ratio, Dec(1, 2))
              + Mul(econ.transport_shortfall, Dec(1, 2))
        stress == Clamp(stress_signal, 0, Dec(2, 1))
        credit_stress == Mul(finance.credit_stress, Dec(85, 100))
                           + Mul(stress, Dec(15, 100))
        default_rate == Mul(finance.default_rate, Dec(1, 1) + credit_stress)
        defaults == TimesYears(Mul(finance.loan_balance, default_rate), dt)
    IN [finance EXCEPT
          !.credit_stress = credit_stress,
          !.loan_balance = IF @ > 0 THEN Max(@ - defaults, 0) ELSE @,
          !.cumulative_defaults =
              IF finance.loan_balance > 0 THEN @ + defaults ELSE @]

\* finance.rs 96-110: the spread follows the loan-to-deposit ratio.  The
\* ratio is f64::INFINITY with loans and no deposits, and an infinite ratio
\* fails is_finite(), so it takes the else branch
adjust_spread(finance) ==
    LET infinite == ~(finance.bank_deposits > EPS) /\ finance.loan_balance > 0
        loan_to_deposit ==
            IF finance.bank_deposits > EPS
            THEN Div(finance.loan_balance, finance.bank_deposits)
            ELSE 0
        pressure ==
            Min(Div(loan_to_deposit, finance.target_loan_to_deposit)
                  - Dec(1, 1), Dec(1, 1))
        spread ==
            IF ~infinite /\ loan_to_deposit > finance.target_loan_to_deposit
            THEN Grow(finance.loan_rate_spread, Dec(5, 100), pressure)
            ELSE Mul(finance.loan_rate_spread, Dec(995, 1000))
    IN [finance EXCEPT !.loan_rate_spread = Clamp(spread, 0, Dec(1, 2))]

\* finance.rs: cash flow, interest, stress, defaults, spread of one region
FinanceRegion(st, id, dt) ==
    LET w == st.world
        econ == w.economies[id]
        finance == w.finances[id]
        net_cash == econ.sales_revenue - econ.wage_bill
        infra_investment ==
            IF net_cash >= 0
            THEN Mul(net_cash, finance.infrastructure_spend_fraction)
            ELSE 0
        funded ==
            IF net_cash >= 0
            THEN [finance EXCEPT
                    !.bank_deposits = @ + (net_cash - infra_investment)]
            ELSE draw_down(finance, -net_cash)
        finance1 ==
            adjust_spread(write_off(accrue_interest(funded, dt), econ, dt))
    IN [world |-> [w EXCEPT
                     !.finances[id] = finance1,
                     !.infrastructure[id].pending_investment =
                         IF infra_investment > 0 THEN @ + infra_investment ELSE @],
        rng |-> st.rng]

Abs(x) == IF x < 0 THEN -x ELSE x

\* Mutant: the transfer is stored as the rule left it
transfer_band_skipped(x) == x

\* policy.transfer_per_capita.clamp(5.0, 400.0)
transfer_band(x) == Clamp(x, Dec(5, 1), Dec(400, 1))

\* policy.tax_rate.clamp(0.04, 0.65)
tax_band(x) == Clamp(x, Dec(4, 100), Dec(65, 100))

\* policy.rs: budget, debt, the tax and transfer rules, approval
PolicyRegion(st, id, dt) ==
    LET w == st.world
        pop == w.populations[id]
        econ == w.economies[id]
        policy == w.policies[id]
        baseline_rnd == w.technology[id].baseline_rnd_budget_per_capita
        citizens == FromInt(pop.citizens)
        employed == FromInt(pop.employed)
        unemployment_rate == IF citizens > 0
                             THEN Dec(1, 1) - Div(employed, citizens) ELSE 0
        gdp == Max(econ.sales_revenue, 0)
        tax_revenue == Max(Mul(gdp, Max(policy.tax_rate, 0)), 0)
        unemployed == Max(citizens - employed, 0)
        transfers == Mul(Mul(Max(policy.transfer_per_capita, 0), unemployed), dt)
        discretionary == tax_revenue - transfers
        guaranteed_rnd == Mul(Mul(citizens, Max(baseline_rnd, 0)), dt)
        extra_rnd == Mul(Max(discretionary, 0), Max(policy.rnd_fraction, 0))
        rnd_allocation == Max(guaranteed_rnd + extra_rnd, 0)
        remaining == discretionary - extra_rnd
        public_investment ==
            Mul(Max(remaining, 0), Max(policy.public_investment_fraction, 0))
        spending == transfers + public_investment + rnd_allocation
        budget_balance == tax_revenue - spending
        public_debt ==
            IF budget_balance < 0 THEN policy.public_debt + (-budget_balance)
            ELSE Max(policy.public_debt - Mul(budget_balance, Dec(35, 100)), 0)
        unemployment_gap == unemployment_rate - policy.target_unemployment_rate
        up == Min(unemployment_gap, Dec(25, 100))
        down == Min(-unemployment_gap, Dec(25, 100))
        transfer1 ==
            IF unemployment_gap > Dec(1, 100)
            THEN Grow(policy.transfer_per_capita, Dec(5, 10), up)
            ELSE IF unemployment_gap < -Dec(1, 100)
                 THEN Grow(policy.transfer_per_capita, -Dec(4, 10), down)
                 ELSE policy.transfer_per_capita
        tax1 ==
            IF unemployment_gap > Dec(1, 100)
            THEN Grow(policy.tax_rate, -Dec(6, 100), up)
            ELSE IF unemployment_gap < -Dec(1, 100)
                 THEN Grow(policy.tax_rate, Dec(5, 100), down)
                 ELSE policy.tax_rate
        balance_gap == budget_balance - policy.target_primary_balance
        severity == Clamp(Div(-balance_gap, Abs(tax_revenue) + Dec(1, 1)),
                          0, Dec(1, 10))
        tax2 == IF balance_gap < 0 THEN Mul(tax1, Dec(1, 1) + severity)
                ELSE Mul(tax1, Dec(999, 1000))
        shortage_signal ==
            Mul(econ.food_shortage_ratio + econ.energy_shortage_ratio, Dec(1, 2))
              + Mul(econ.transport_shortfall, Dec(1, 2))
        approval_signal ==
            Mul(Clamp(Dec(1, 1) - unemployment_rate, 0, Dec(1, 1)), Dec(6, 10))
              + Mul(Clamp(Dec(1, 1) - shortage_signal, 0, Dec(1, 1)), Dec(4, 10))
        updated_transfer == transfer_band(transfer1)
        policy1 == [policy EXCEPT
                      !.last_tax_revenue = tax_revenue,
                      !.last_transfers = transfers,
                      !.last_public_investment = public_investment,
                      !.last_rnd_allocation = rnd_allocation,
                      !.budget_balance = budget_balance,
                      !.public_debt = public_debt,
                      !.approval_rating =
                          Clamp(Mul(@, Dec(85, 100))
                                  + Mul(approval_signal, Dec(15, 100)),
                                0, Dec(1, 1)),
                      !.tax_rate = tax_band(tax2),
                      !.transfer_per_capita = updated_transfer]
    IN IF citizens <= 0 THEN st
       ELSE [world |-> [w EXCEPT
                          !.policies[id] = policy1,
                          !.economies[id].basic_income_per_capita = updated_transfer,
                          !.infrastructure[id].pending_investment =
                              IF public_investment > 0 THEN @ + public_investment
                              ELSE @,
                          !.technology[id].current_allocation =
                              Max(rnd_allocation, 0)],
             rng |-> st.rng]

\* Mutant: the multipliers are taken from the list as research leaves it
updated_productivity_late(tech, tech1) ==
    LET mult == aggregate_productivity_multipliers(tech1.unlocked)
    IN [food |-> Mul(tech.base_food_productivity, mult.food),
        energy |-> Mul(tech.base_energy_productivity, mult.energy)]

\* updated_productivity: the baselines times the multipliers of the list as
\* the step finds it (tech), not as its research leaves it (tech1)
updated_productivity(tech, tech1) ==
    LET mult == aggregate_productivity_multipliers(tech.unlocked)
    IN [food |-> Mul(tech.base_food_productivity, mult.food),
        energy |-> Mul(tech.base_energy_productivity, mult.energy)]

\* Mutant: the progress of a project is the gain of the step, not the sum
TechnologyRegion_restart(st, id, dt) ==
    LET w == st.world
        tech == w.technology[id]
        allocation == Max(tech.current_allocation, 0)
        opened ==
            IF tech.active_project = << >>
            THEN LET def == next_available(tech.unlocked)
                 IN IF def = << >> THEN << >>
                    ELSE << [tech_id |-> def[1].id, progress |-> 0,
                             difficulty |-> def[1].difficulty] >>
            ELSE tech.active_project
        progress_gain == Mul(Mul(allocation, tech.research_efficiency), dt)
        project == [opened[1] EXCEPT !.progress = progress_gain]
        done == project.progress >= project.difficulty
        tech1 ==
            IF allocation <= 0
            THEN [tech EXCEPT !.innovation_score = Mul(@, Dec(9, 10))]
            ELSE IF opened = << >>
                 THEN [tech EXCEPT !.innovation_score = Mul(@, Dec(95, 100))]
                 ELSE [tech EXCEPT
                         !.innovation_score =
                             Max(Mul(@, Dec(7, 10)) + Mul(progress_gain, Dec(3, 10)),
                                 0),
                         !.unlocked =
                             IF done /\ project.tech_id \notin Elems(@)
                             THEN Append(@, project.tech_id) ELSE @,
                         !.active_project =
                             IF done THEN << >> ELSE << project >>]
    IN [world |-> [w EXCEPT
                     !.technology[id] = tech1,
                     !.economies[id].food_productivity_per_worker =
                         updated_productivity(tech, tech1).food,
                     !.economies[id].energy_productivity_per_worker =
                         updated_productivity(tech, tech1).energy],
        rng |-> st.rng]

\* technology.rs (system): productivity from the unlocked set, research
TechnologyRegion(st, id, dt) ==
    LET w == st.world
        tech == w.technology[id]
        allocation == Max(tech.current_allocation, 0)
        opened ==
            IF tech.active_project = << >>
            THEN LET def == next_available(tech.unlocked)
                 IN IF def = << >> THEN << >>
                    ELSE << [tech_id |-> def[1].id, progress |-> 0,
                             difficulty |-> def[1].difficulty] >>
            ELSE tech.active_project
        progress_gain == Mul(Mul(allocation, tech.research_efficiency), dt)
        project == [opened[1] EXCEPT !.progress = @ + progress_gain]
        done == project.progress >= project.difficulty
        tech1 ==
            IF allocation <= 0
            THEN [tech EXCEPT !.innovation_score = Mul(@, Dec(9, 10))]
            ELSE IF opened = << >>
                 THEN [tech EXCEPT !.innovation_score = Mul(@, Dec(95, 100))]
                 ELSE [tech EXCEPT
                         !.innovation_score =
                             Max(Mul(@, Dec(7, 10)) + Mul(progress_gain, Dec(3, 10)),
                                 0),
                         !.unlocked =
                             IF done /\ project.tech_id \notin Elems(@)
                             THEN Append(@, project.tech_id) ELSE @,
                         !.active_project =
                             IF done THEN << >> ELSE << project >>]
    IN [world |-> [w EXCEPT
                     !.technology[id] = tech1,
                     !.economies[id].food_productivity_per_worker =
                         updated_productivity(tech, tech1).food,
                     !.economies[id].energy_productivity_per_worker =
                         updated_productivity(tech, tech1).energy],
        rng |-> st.rng]

\* for id in ids { ... }, the loop state being the world and the substream
RECURSIVE EnvironmentLoop(_, _, _)
EnvironmentLoop(st, ids, dt) ==
    IF ids = << >> THEN st
    ELSE EnvironmentLoop(EnvironmentRegion(st, Head(ids), dt), Tail(ids), dt)

EnvironmentSystem_run(ctx, w, g, keys) ==
    EnvironmentLoop([world |-> w, rng |-> g], sort(keys), ctx.dt_days)

\* for id in ids { ... }, the loop state being the world and the substream
RECURSIVE InfrastructureLoop(_, _, _)
InfrastructureLoop(st, ids, dt) ==
    IF ids = << >> THEN st
    ELSE InfrastructureLoop(InfrastructureRegion(st, Head(ids), dt), Tail(ids), dt)

InfrastructureSystem_run(ctx, w, g, keys) ==
    InfrastructureLoop([world |-> w, rng |-> g], sort(keys), ctx.dt_days)

\* for id in ids { ... }, the loop state being the world and the substream
RECURSIVE PopulationLoop(_, _, _)
PopulationLoop(st, ids, dt) ==
    IF ids = << >> THEN st
    ELSE PopulationLoop(PopulationRegion(st, Head(ids), dt), Tail(ids), dt)

\* Mutant: the list of the tick before is not cleared
PopulationSystem_run_uncleared(ctx, w, g, keys) ==
    PopulationLoop([world |-> w, rng |-> g], sort(keys), ctx.dt_days)

\* world.bookkeeping.starving_regions.clear(), then the loop
PopulationSystem_run(ctx, w, g, keys) ==
    PopulationLoop([world |-> [w EXCEPT !.bookkeeping.starving_regions = << >>],
                    rng |-> g],
                   sort(keys), ctx.dt_days)

\* for id in ids { ... }, the loop state being the world and the substream
RECURSIVE EconomyLoop(_, _, _)
EconomyLoop(st, ids, dt) ==
    IF ids = << >> THEN st
    ELSE EconomyLoop(EconomyRegion(st, Head(ids), dt), Tail(ids), dt)

EconomySystem_run(ctx, w, g, keys) ==
    EconomyLoop([world |-> w, rng |-> g], sort(keys), ctx.dt_days)

\* for id in ids { ... }, the loop state being the world and the substream
RECURSIVE FinanceLoop(_, _, _)
FinanceLoop(st, ids, dt) ==
    IF ids = << >> THEN st
    ELSE FinanceLoop(FinanceRegion(st, Head(ids), dt), Tail(ids), dt)

FinanceSystem_run(ctx, w, g, keys) ==
    FinanceLoop([world |-> w, rng |-> g], sort(keys), ctx.dt_days)

\* for id in ids { ... }, the loop state being the world and the substream
RECURSIVE PolicyLoop(_, _, _)
PolicyLoop(st, ids, dt) ==
    IF ids = << >> THEN st
    ELSE PolicyLoop(PolicyRegion(st, Head(ids), dt), Tail(ids), dt)

PolicySystem_run(ctx, w, g, keys) ==
    PolicyLoop([world |-> w, rng |-> g], sort(keys), ctx.dt_days)

\* for id in ids { ... }, the loop state being the world and the substream
RECURSIVE TechnologyLoop(_, _, _)
TechnologyLoop(st, ids, dt) ==
    IF ids = << >> THEN st
    ELSE TechnologyLoop(TechnologyRegion(st, Head(ids), dt), Tail(ids), dt)

TechnologySystem_run(ctx, w, g, keys) ==
    TechnologyLoop([world |-> w, rng |-> g], sort(keys), ctx.dt_days)

\* The region names of the scenarios, in the order of String's Ord
NameOrder == << "atoll", "isle", "reef" >>

NameRank(name) == CHOOSE i \in 1..Len(NameOrder) : NameOrder[i] = name

\* Vec::dedup: consecutive equal elements collapse into the first
RECURSIVE dedup(_)
dedup(v) ==
    IF Len(v) <= 1 THEN v
    ELSE LET rest == dedup(Tail(v))
         IN IF Head(v) = Head(rest) THEN rest ELSE << Head(v) >> \o rest

\* Bookkeeping: clamp every stock, then sort and dedup starving_regions
BookkeepingSystem_run(ctx, w, g, keys) ==
    [world |->
        [w EXCEPT
            !.resources = [id \in DOMAIN @ |-> clamp_non_negative(@[id])],
            !.bookkeeping.starving_regions =
                dedup(SortSeq(@, LAMBDA a, b : NameRank(a) < NameRank(b)))],
     rng |-> g]

\* system.run(&ctx, world, &mut rng_stream), by the name of the system
System_run(name, ctx, w, g, keys) ==
    CASE name = "environment" -> EnvironmentSystem_run(ctx, w, g, keys)
      [] name = "infrastructure" -> InfrastructureSystem_run(ctx, w, g, keys)
      [] name = "population" -> PopulationSystem_run(ctx, w, g, keys)
      [] name = "economy" -> EconomySystem_run(ctx, w, g, keys)
      [] name = "finance" -> FinanceSystem_run(ctx, w, g, keys)
      [] name = "policy" -> PolicySystem_run(ctx, w, g, keys)
      [] name = "technology" -> TechnologySystem_run(ctx, w, g, keys)
      [] name = "bookkeeping" -> BookkeepingSystem_run(ctx, w, g, keys)

---------------------------------------------------------------------------
(* snapshot.rs: the cadence of the snapshot writer                         *)

\* Mutant: the writer fires on every tick once an interval is set
maybe_snapshot_every_tick(tick, interval) == interval # 0

maybe_snapshot(tick, interval) ==
    IF interval = 0 THEN FALSE
    ELSE IF tick % interval # 0 THEN FALSE
    ELSE TRUE

---------------------------------------------------------------------------
(* engine/mod.rs: Engine::run over the standard pipeline                   *)

\* Mutant: Population runs after the systems that read what it writes
SystemNames_PopulationLate ==
    << "environment", "infrastructure", "economy", "finance", "policy",
       "population", "technology", "bookkeeping" >>

\* Mutant: Economy runs before the systems that read what it writes
SystemNames_EconomyEarly ==
    << "environment", "economy", "infrastructure", "population",
       "finance", "policy", "technology", "bookkeeping" >>

\* EngineBuilder::with_standard_systems: the pipeline in its order
SystemNames ==
    << "environment", "infrastructure", "population", "economy",
       "finance", "policy", "technology", "bookkeeping" >>

\* Environment and Population draw once per region, the others never
DrawsOf(name, nregions) ==
    IF name \in {"environment", "population"} THEN nregions ELSE 0

NoFrame == [tick |-> -1, completed |-> FALSE]

\* The engine has not handed any snapshot to a hook yet
NoSnapshot == [tick |-> -1]

\* One entry of the log of what a tick has done so far
Event(name, tick, ok) == [name |-> name, tick |-> tick, ok |-> ok]

Init ==
    /\ settings \in [ticks : 0..MaxTicks, t0 : 0..MaxT0,
                     snapshot_interval_ticks : 0..MaxInterval,
                     seed : 0..MaxSeed, regions : 1..MaxRegions,
                     dt_days : {Dec(1, 2), Dec(1, 1)}, hook : BOOLEAN,
                     faults : {TRUE}]
    /\ world = [build_world(BaseScenario(settings.regions, settings.dt_days))
                   EXCEPT !.tick = settings.t0,
                          !.days_elapsed = settings.t0 * settings.dt_days]
    /\ rng = RngManager_new(settings.seed)
    /\ eng = [pc |-> "loop", remaining |-> settings.ticks, sys_idx |-> 0,
              current_tick |-> 0, cause |-> "none",
              snapshot |-> NoSnapshot]
    /\ invoked = << >>
    /\ files = {}
    /\ web = [latest_frame |-> NoFrame, frames |-> << >>, sent |-> << >>,
              simulation_done |-> FALSE, final_frame |-> NoFrame,
              hook_calls |-> 0]
    /\ runB = [rng |-> RngManager_new(settings.seed)]
    /\ hist = [before |-> world, stream |-> seed_from_u64(settings.seed)]

\* for _ in 0..ticks { let current_tick = world.tick(); ...
BeginTick ==
    /\ eng.pc = "loop"
    /\ eng.remaining > 0
    /\ eng' = [eng EXCEPT !.pc = "systems", !.remaining = @ - 1,
                          !.sys_idx = 1, !.current_tick = world.tick]
    /\ invoked' = << >>
    /\ UNCHANGED <<settings, world, rng, files, web, runB, hist>>

\* Mutant: the inner loop stops one system short
AfterSystem_SkipLast(e, ok) ==
    IF ~ok THEN [e EXCEPT !.pc = "failed", !.cause = "system"]
    ELSE IF e.sys_idx >= Len(SystemNames) - 1 THEN [e EXCEPT !.pc = "advance"]
    ELSE [e EXCEPT !.sys_idx = @ + 1]

\* Mutant: catch-and-continue, the result of system.run is dropped
AfterSystem_Continue(e, ok) ==
    IF e.sys_idx = Len(SystemNames) THEN [e EXCEPT !.pc = "advance"]
    ELSE [e EXCEPT !.sys_idx = @ + 1]

\* On Ok the loop goes on to the next system, on Err `?` returns from run
AfterSystem(e, ok) ==
    IF ~ok THEN [e EXCEPT !.pc = "failed", !.cause = "system"]
    ELSE IF e.sys_idx = Len(SystemNames) THEN [e EXCEPT !.pc = "advance"]
    ELSE [e EXCEPT !.sys_idx = @ + 1]

\* let mut rng_stream = self.rng.stream(system.name());
\* system.run(&ctx, world, &mut rng_stream)?;
\* hist keeps what the system that ran last was given: the world and the
\* substream as they were before it ran.
\* A standard system always returns Ok; with settings.faults the pipeline
\* holds systems that may return Err once their body has run.
RunSystem ==
    /\ eng.pc = "systems"
    /\ LET name == SystemNames[eng.sys_idx]
           ctx == [tick |-> eng.current_tick, dt_days |-> world.dt_days]
           m == stream(rng, name)
       IN \E ok \in (IF settings.faults THEN BOOLEAN ELSE {TRUE}),
             keys \in HashOrders(DOMAIN world.regions) :
            \E r \in { System_run(name, ctx, world, m.streams[name], keys) } :
               /\ world' = r.world
               /\ rng' = [m EXCEPT !.streams[name] = r.rng]
               /\ invoked' = Append(invoked, Event(name, ctx.tick, ok))
               /\ eng' = AfterSystem(eng, ok)
               /\ hist' = [before |-> world, stream |-> m.streams[name]]
    /\ UNCHANGED <<settings, files, web, runB>>

AdvanceTime ==
    /\ eng.pc = "advance"
    /\ world' = advance_time(world)
    /\ eng' = [eng EXCEPT !.pc = "snapshot"]
    /\ invoked' = Append(invoked, Event("advance_time", world'.tick, TRUE))
    /\ UNCHANGED <<settings, rng, files, web, runB, hist>>

\* Mutant: the writer's error is dropped and the loop goes on
AfterWrite_Continue(e, ok) == [e EXCEPT !.pc = "hook"]

\* After the writer: Ok goes on to the hook, Err `?` returns from run
AfterWrite(e, ok) ==
    IF ok THEN [e EXCEPT !.pc = "hook"]
    ELSE [e EXCEPT !.pc = "failed", !.cause = "snapshot"]

\* self.snapshot_writer.maybe_write(world, &self.settings.scenario_name)?;
MaybeWrite ==
    /\ eng.pc = "snapshot"
    /\ IF maybe_snapshot(world.tick, settings.snapshot_interval_ticks)
       THEN \E ok \in BOOLEAN :
              /\ files' = IF ok THEN files \cup {world.tick} ELSE files
              /\ eng' = AfterWrite(eng, ok)
              /\ invoked' = Append(invoked, Event("maybe_write", world.tick, ok))
       ELSE /\ files' = files
            /\ eng' = AfterWrite(eng, TRUE)
            /\ invoked' = Append(invoked, Event("maybe_write", world.tick, TRUE))
    /\ UNCHANGED <<settings, world, rng, web, runB, hist>>

---------------------------------------------------------------------------
(* The hook of run_with_hook, as the web embedding supplies it             *)
(* (web/mod.rs), and the simulation task around the run.                   *)

\* Mutant: every frame built by the hook is flagged completed
HookFrame_Completed(snap) == [tick |-> snap.tick, completed |-> TRUE]

\* UiFrame { snapshot, completed: false }
HookFrame(snap) == [tick |-> snap.tick, completed |-> FALSE]

\* run_with_hook hands the hook a snapshot of the world, by value
CallHook ==
    /\ eng.pc = "hook"
    /\ settings.hook
    /\ \E keys \in HashOrders(DOMAIN world.regions) :
          eng' = [eng EXCEPT !.pc = "hook_latest",
                             !.snapshot = snapshot(world, keys)]
    /\ invoked' = Append(invoked, Event("hook", eng'.snapshot.tick, TRUE))
    /\ web' = [web EXCEPT !.hook_calls = @ + 1]
    /\ UNCHANGED <<settings, world, rng, files, runB, hist>>

\* Engine::run has no hook: the loop goes on to its next iteration
NoHook ==
    /\ eng.pc = "hook"
    /\ ~settings.hook
    /\ eng' = [eng EXCEPT !.pc = "loop"]
    /\ UNCHANGED <<settings, world, rng, invoked, files, web, runB, hist>>

\* *latest_for_sim.lock() = Some(frame.clone())
HookLatest ==
    /\ eng.pc = "hook_latest"
    /\ web' = [web EXCEPT !.latest_frame = HookFrame(eng.snapshot)]
    /\ eng' = [eng EXCEPT !.pc = "hook_frames"]
    /\ UNCHANGED <<settings, world, rng, invoked, files, runB, hist>>

\* frames_for_sim.lock().push(frame.clone())
HookFrames ==
    /\ eng.pc = "hook_frames"
    /\ web' = [web EXCEPT !.frames = Append(@, HookFrame(eng.snapshot))]
    /\ eng' = [eng EXCEPT !.pc = "hook_send"]
    /\ UNCHANGED <<settings, world, rng, invoked, files, runB, hist>>

\* tx_for_sim.send(payload)
HookSend ==
    /\ eng.pc = "hook_send"
    /\ web' = [web EXCEPT !.sent = Append(@, HookFrame(eng.snapshot))]
    /\ eng' = [eng EXCEPT !.pc = "loop"]
    /\ UNCHANGED <<settings, world, rng, invoked, files, runB, hist>>

\* Ok(()) at the end of the loop
Return ==
    /\ eng.pc = "loop"
    /\ eng.remaining = 0
    /\ eng' = [eng EXCEPT !.pc = IF settings.hook THEN "store_done" ELSE "done"]
    /\ UNCHANGED <<settings, world, rng, invoked, files, web, runB, hist>>

\* done_for_sim.store(true, Ordering::SeqCst)
StoreDone ==
    /\ eng.pc = "store_done"
    /\ web' = [web EXCEPT !.simulation_done = TRUE]
    /\ eng' = [eng EXCEPT !.pc = "read_final"]
    /\ UNCHANGED <<settings, world, rng, invoked, files, runB, hist>>

\* let final_frame = latest_for_sim.lock().clone(); if let Some(mut frame) ...
ReadFinal ==
    /\ eng.pc = "read_final"
    /\ web' = [web EXCEPT !.final_frame =
                 IF web.latest_frame = NoFrame THEN NoFrame
                 ELSE [web.latest_frame EXCEPT !.completed = TRUE]]
    /\ eng' = [eng EXCEPT !.pc = IF web.latest_frame = NoFrame THEN "done"
                                 ELSE "publish_latest"]
    /\ UNCHANGED <<settings, world, rng, invoked, files, runB, hist>>

PublishLatest ==
    /\ eng.pc = "publish_latest"
    /\ web' = [web EXCEPT !.latest_frame = web.final_frame]
    /\ eng' = [eng EXCEPT !.pc = "publish_frames"]
    /\ UNCHANGED <<settings, world, rng, invoked, files, runB, hist>>

\* Mutant: the terminal frame is pushed after the frame it should replace
ReplaceLast_pushed(fs, frame) == Append(fs, frame)

\* if let Some(last) = guard.last_mut() { *last = frame } else { push }
ReplaceLast(fs, frame) ==
    IF Len(fs) > 0 THEN [fs EXCEPT ![Len(fs)] = frame] ELSE Append(fs, frame)

PublishFrames ==
    /\ eng.pc = "publish_frames"
    /\ web' = [web EXCEPT !.frames = ReplaceLast(@, web.final_frame)]
    /\ eng' = [eng EXCEPT !.pc = "send_final"]
    /\ UNCHANGED <<settings, world, rng, invoked, files, runB, hist>>

SendFinal ==
    /\ eng.pc = "send_final"
    /\ web' = [web EXCEPT !.sent = Append(@, web.final_frame)]
    /\ eng' = [eng EXCEPT !.pc = "done"]
    /\ UNCHANGED <<settings, world, rng, invoked, files, runB, hist>>

Next ==
    \/ BeginTick
    \/ RunSystem
    \/ AdvanceTime
    \/ MaybeWrite
    \/ NoHook
    \/ CallHook
    \/ HookLatest
    \/ HookFrames
    \/ HookSend
    \/ Return
    \/ StoreDone
    \/ ReadFinal
    \/ PublishLatest
    \/ PublishFrames
    \/ SendFinal

Spec == Init /\ [][Next]_vars

---------------------------------------------------------------------------
(* Two runs of the same engine (same seed, same system list) in lockstep.  *)
(* One system, settings.sibling, takes a different number of values from   *)
(* its lease in each run; hist records what every system has drawn.        *)

NameSet == {SystemNames[i] : i \in 1..Len(SystemNames)}

InitRng ==
    /\ settings \in [ticks : 1..MaxTicks, t0 : {0},
                     snapshot_interval_ticks : {0},
                     seed : 0..MaxSeed, regions : 1..MaxRegions,
                     dt_days : {Dec(1, 1)}, hook : {FALSE},
                     faults : {FALSE}, sibling : NameSet]
    /\ world = build_world(BaseScenario(settings.regions, settings.dt_days))
    /\ rng = RngManager_new(settings.seed)
    /\ runB = [rng |-> RngManager_new(settings.seed)]
    /\ eng = [pc |-> "loop", remaining |-> settings.ticks, sys_idx |-> 0,
              current_tick |-> 0, cause |-> "none",
              snapshot |-> NoSnapshot]
    /\ invoked = << >>
    /\ files = {}
    /\ web = [latest_frame |-> NoFrame, frames |-> << >>, sent |-> << >>,
              simulation_done |-> FALSE, final_frame |-> NoFrame,
              hook_calls |-> 0]
    /\ hist = [A |-> [n \in NameSet |-> << >>], B |-> [n \in NameSet |-> << >>]]

RunSystemPair ==
    /\ eng.pc = "systems"
    /\ LET name == SystemNames[eng.sys_idx]
       IN \E ka, kb \in 0..MaxDraws :
            /\ name # settings.sibling =>
                  (ka = DrawsOf(name, settings.regions) /\ kb = ka)
            /\ LET a == Draw(stream(rng, name), name, ka)
                   b == Draw(stream(runB.rng, name), name, kb)
               IN /\ rng' = a.rng
                  /\ runB' = [runB EXCEPT !.rng = b.rng]
                  /\ hist' = [hist EXCEPT !.A[name] = @ \o a.values,
                                          !.B[name] = @ \o b.values]
            /\ invoked' = Append(invoked, Event(name, eng.current_tick, TRUE))
            /\ eng' = AfterSystem(eng, TRUE)
    /\ UNCHANGED <<settings, world, files, web>>

NextRng ==
    \/ BeginTick
    \/ RunSystemPair
    \/ AdvanceTime
    \/ MaybeWrite
    \/ NoHook
    \/ Return

SpecRng == InitRng /\ [][NextRng]_vars

\* C6: what a system draws from its substream does not depend on how much
\* a sibling draws from its own: in two runs that differ only in the
\* sibling's consumption every other system has drawn the same values, and
\* the sibling's own values agree as far as both runs have drawn.
C6_SiblingIndependence ==
    /\ \A n \in NameSet \ {settings.sibling} : hist.A[n] = hist.B[n]
    /\ LET a == hist.A[settings.sibling]
           b == hist.B[settings.sibling]
       IN \A k \in 1..Len(a) : k <= Len(b) => a[k] = b[k]

C6_Witness ==
    /\ settings.sibling = "environment"
    /\ Len(hist.A["environment"]) = 4
    /\ Len(hist.B["environment"]) = 1
    /\ Len(hist.A["population"]) = 2 * settings.regions
    /\ hist.A["population"][1] # hist.A["population"][2]

---------------------------------------------------------------------------
(* The simulation kernel: Engine::run over worlds built from scenarios     *)
(* that differ in what their regions start with.                           *)

\* r with the fields of v replaced
With(r, v) == [f \in DOMAIN r |-> IF f \in DOMAIN v THEN v[f] ELSE r[f]]

\* What the first region of a scenario may start with
FirstRegions ==
    {With(BaseRegion, v) :
        v \in [food : {0, Dec(30, 1)},
               food_productivity_per_worker : {Dec(1, 2), Dec(4, 1)},
               annual_birth_rate : {0, Dec(365, 10)},
               annual_death_rate : {0, Dec(73, 1)},
               transport_capacity : {Dec(5, 1), Dec(100, 1)},
               power_capacity : {Dec(2, 1), Dec(100, 1)},
               initial_deposits : {0, Dec(100, 1)}]}

\* What the regions after the first may start with
OtherRegions ==
    {With(BaseRegion, [name |-> "atoll", food |-> 0, energy |-> 0,
                       food_productivity_per_worker |-> Dec(1, 2)]),
     With(BaseRegion, [name |-> "reef", citizens |-> 0]),
     With(BaseRegion, [food |-> 0, food_productivity_per_worker |-> Dec(1, 2)])}

\* The scenarios of the kernel: the regions past the second are all alike
KernelScenarios ==
    {[dt_days |-> Dec(1, 1), regions |-> rs] :
        rs \in UNION {{r \in [1..n -> FirstRegions \cup OtherRegions] :
                          /\ r[1] \in FirstRegions
                          /\ \A i \in 2..n :
                                r[i] \in (IF i = 2 THEN OtherRegions
                                          ELSE {BaseRegion})}
                      : n \in 1..MaxRegions}}

InitKernel ==
    /\ settings \in [ticks : {MaxTicks}, t0 : {0},
                     snapshot_interval_ticks : {0},
                     seed : 0..MaxSeed, hook : {FALSE}, faults : {FALSE},
                     scenario : KernelScenarios]
    /\ world = build_world(settings.scenario)
    /\ rng = RngManager_new(settings.seed)
    /\ runB = [rng |-> RngManager_new(settings.seed)]
    /\ eng = [pc |-> "loop", remaining |-> settings.ticks, sys_idx |-> 0,
              current_tick |-> 0, cause |-> "none",
              snapshot |-> NoSnapshot]
    /\ invoked = << >>
    /\ files = {}
    /\ web = [latest_frame |-> NoFrame, frames |-> << >>, sent |-> << >>,
              simulation_done |-> FALSE, final_frame |-> NoFrame,
              hook_calls |-> 0]
    /\ hist = [before |-> world, stream |-> seed_from_u64(settings.seed)]

NextKernel ==
    \/ BeginTick
    \/ RunSystem
    \/ AdvanceTime
    \/ MaybeWrite
    \/ NoHook
    \/ Return

SpecKernel == InitKernel /\ [][NextKernel]_vars

---------------------------------------------------------------------------
(* Two independent runs of the engine on the same scenario with the same   *)
(* seed, in lockstep: run A in world and rng, run B in runB.  Each run's   *)
(* hash maps yield their keys in an order of their own.                    *)

TwinScenarios ==
    {[dt_days |-> Dec(1, 1), regions |-> rs] :
        rs \in UNION {[1..n -> OtherRegions] : n \in 1..MaxRegions}}

InitTwin ==
    /\ settings \in [ticks : {MaxTicks}, t0 : {0},
                     snapshot_interval_ticks : {0},
                     seed : 0..MaxSeed, hook : {FALSE}, faults : {FALSE},
                     scenario : TwinScenarios]
    /\ world = build_world(settings.scenario)
    /\ rng = RngManager_new(settings.seed)
    /\ runB = [world |-> build_world(settings.scenario),
               rng |-> RngManager_new(settings.seed),
               snapshot |-> NoSnapshot]
    /\ eng = [pc |-> "loop", remaining |-> settings.ticks, sys_idx |-> 0,
              current_tick |-> 0, cause |-> "none",
              snapshot |-> NoSnapshot]
    /\ invoked = << >>
    /\ files = {}
    /\ web = [latest_frame |-> NoFrame, frames |-> << >>, sent |-> << >>,
              simulation_done |-> FALSE, final_frame |-> NoFrame,
              hook_calls |-> 0]
    /\ hist = [before |-> world, stream |-> seed_from_u64(settings.seed)]

RunSystemTwin ==
    /\ eng.pc = "systems"
    /\ LET name == SystemNames[eng.sys_idx]
           ctx == [tick |-> eng.current_tick, dt_days |-> world.dt_days]
           ma == stream(rng, name)
           mb == stream(runB.rng, name)
       IN /\ \E keys \in HashOrders(DOMAIN world.regions) :
               \E r \in { System_run(name, ctx, world, ma.streams[name], keys) } :
                  /\ world' = r.world
                  /\ rng' = [ma EXCEPT !.streams[name] = r.rng]
          /\ \E keys \in HashOrders(DOMAIN runB.world.regions) :
               \E r \in { System_run(name, ctx, runB.world, mb.streams[name], keys) } :
                  runB' = [runB EXCEPT
                             !.world = r.world,
                             !.rng = [mb EXCEPT !.streams[name] = r.rng]]
          /\ invoked' = Append(invoked, Event(name, ctx.tick, TRUE))
          /\ eng' = AfterSystem(eng, TRUE)
    /\ UNCHANGED <<settings, files, web, hist>>

\* world.advance_time() in both runs, then what each run would write to its
\* snapshot file or hand to its hook
AdvanceTimeTwin ==
    /\ eng.pc = "advance"
    /\ world' = advance_time(world)
    /\ \E ka \in HashOrders(DOMAIN world.regions),
          kb \in HashOrders(DOMAIN runB.world.regions) :
          /\ eng' = [eng EXCEPT !.pc = "snapshot",
                                !.snapshot = snapshot(world', ka)]
          /\ runB' = [runB EXCEPT
                        !.world = advance_time(@),
                        !.snapshot = snapshot(advance_time(runB.world), kb)]
    /\ invoked' = Append(invoked, Event("advance_time", world'.tick, TRUE))
    /\ UNCHANGED <<settings, rng, files, web, hist>>

NextTwin ==
    \/ BeginTick
    \/ RunSystemTwin
    \/ AdvanceTimeTwin
    \/ MaybeWrite
    \/ NoHook
    \/ Return

SpecTwin == InitTwin /\ [][NextTwin]_vars

\* C2: two independent runs of the same scenario with the same seed pass
\* through the same world states: at every step the two worlds and the two
\* RNG managers are equal, so total_population and every field of every
\* region snapshot agree, and so does what each run writes or hands to its
\* hook after a tick.
C2_Determinism ==
    /\ world = runB.world
    /\ rng = runB.rng
    /\ total_population(world) = total_population(runB.world)
    /\ eng.snapshot = runB.snapshot
    /\ \A ka \in HashOrders(DOMAIN world.regions),
          kb \in HashOrders(DOMAIN runB.world.regions) :
          snapshot(world, ka) = snapshot(runB.world, kb)

C2_Witness ==
    /\ eng.pc = "done"
    /\ world.tick = MaxTicks
    /\ Cardinality(DOMAIN world.regions) = 2
    /\ eng.snapshot.tick = MaxTicks
    /\ eng.snapshot.regions[1].food # eng.snapshot.regions[2].food
    /\ eng.snapshot.regions[1].citizens < 12
    /\ runB.rng.streams["population"].pos = 4 * MaxTicks

---------------------------------------------------------------------------
(* Properties of the engine                                                *)

\* Loop iterations begun so far
Begun == settings.ticks - eng.remaining

\* What one complete tick that starts at world tick t does, in order
ExpectedLog(t) ==
    [i \in 1..(Len(SystemNames) + 3) |->
        IF i <= Len(SystemNames) THEN Event(SystemNames[i], t, TRUE)
        ELSE IF i = Len(SystemNames) + 1 THEN Event("advance_time", t + 1, TRUE)
        ELSE IF i = Len(SystemNames) + 2 THEN Event("maybe_write", t + 1, TRUE)
        ELSE Event("hook", t + 1, TRUE)]

FullLogLen == Len(SystemNames) + (IF settings.hook THEN 3 ELSE 2)

\* C1: within a tick every system of the pipeline runs once, in declaration
\* order, with ctx.tick the pre-advance tick; then the tick counter grows by
\* one and days_elapsed by dt_days, then the snapshot writer is consulted,
\* then the hook gets the post-advance snapshot; a finished tick did all of
\* these.
C1_TickOrder ==
    LET exp == ExpectedLog(eng.current_tick)
        n == Len(invoked)
    IN /\ n <= FullLogLen
       /\ \A i \in 1..n :
            /\ invoked[i].name = exp[i].name
            /\ invoked[i].tick = exp[i].tick
            /\ i < n => invoked[i].ok
       /\ Begun > 0 =>
            /\ eng.current_tick = settings.t0 + Begun - 1
            /\ world.tick = eng.current_tick
                              + (IF n > Len(SystemNames) THEN 1 ELSE 0)
       /\ Begun = 0 => world.tick = settings.t0
       /\ world.days_elapsed = world.tick * world.dt_days
       /\ (eng.pc = "loop" /\ Begun > 0) => n = FullLogLen
       /\ (n = Len(SystemNames) + 3) =>
            \A keys \in HashOrders(DOMAIN world.regions) :
                eng.snapshot = snapshot(world, keys)

C1_Witness ==
    /\ eng.pc = "loop"
    /\ settings.hook
    /\ Begun = 2
    /\ settings.t0 = 1
    /\ Len(invoked) = Len(SystemNames) + 3
    /\ world.tick = 3

\* C3: a run of N ticks from tick T0 calls the hook N times, the k-th frame
\* has tick T0+k, and once the simulation task is done the last frame, and
\* no other, has completed = true (in the frame list and on the channel).
C3_HookFrames ==
    LET N == settings.ticks
        fs == web.frames
    IN /\ web.hook_calls <= N
       /\ \A k \in 1..Len(fs) :
            /\ fs[k].tick = settings.t0 + k
            /\ fs[k].completed => (k = N /\ eng.pc \in {"send_final", "done"})
       /\ (eng.pc = "done" /\ settings.hook) =>
            /\ web.hook_calls = N
            /\ Len(fs) = N
            /\ N > 0 => fs[N].completed
            /\ Len(web.sent) = N + (IF N > 0 THEN 1 ELSE 0)
            /\ \A k \in 1..Len(web.sent) :
                 /\ web.sent[k].completed <=> (k = N + 1)
                 /\ web.sent[k].tick = settings.t0 + (IF k > N THEN N ELSE k)

C3_Witness ==
    /\ eng.pc = "done"
    /\ settings.hook
    /\ settings.ticks = 3
    /\ settings.t0 = 1
    /\ Len(web.frames) = 3
    /\ web.frames[3] = [tick |-> 4, completed |-> TRUE]

\* C4: with interval I a snapshot file exists for tick T exactly when I > 0,
\* T > 0, T mod I = 0 and the run has passed the writer at post-advance
\* tick T (T is the current tick only once the writer has been consulted
\* and has not failed).
C4_SnapshotCadence ==
    LET I == settings.snapshot_interval_ticks
        pending == \/ eng.pc = "snapshot"
                   \/ (eng.pc = "failed" /\ eng.cause = "snapshot")
    IN \A T \in 0..(world.tick + 1) :
         T \in files <=>
            /\ I > 0
            /\ T > 0
            /\ T % I = 0
            /\ settings.t0 < T
            /\ T <= world.tick
            /\ ~(T = world.tick /\ pending)

C4_Witness ==
    /\ settings.snapshot_interval_ticks = 2
    /\ settings.t0 = 1
    /\ files = {2, 4}
    /\ eng.pc = "done"

\* Requests of the i-th system's substream made so far in the run
Requests(i) ==
    IF Begun = 0 THEN 0
    ELSE (Begun - 1) + (IF Len(invoked) >= i THEN 1 ELSE 0)

\* C5: a substream is created by the first request for its name, seeded by
\* a draw from the master, and later requests continue it: its seed is the
\* master's draw made at its first request and its position is the sum of
\* what all its leases consumed; the master has advanced once per name.
C5_StreamCached ==
    /\ rng.master.seed = settings.seed
    /\ rng.master.pos = (SeedBytes \div 4) * Cardinality(DOMAIN rng.streams)
    /\ DOMAIN rng.streams =
          {SystemNames[i] : i \in {j \in 1..Len(SystemNames) : Requests(j) > 0}}
    /\ \A i \in 1..Len(SystemNames) :
          LET name == SystemNames[i]
              at == [seed |-> settings.seed, pos |-> (SeedBytes \div 4) * (i - 1)]
          IN name \in DOMAIN rng.streams =>
                /\ rng.streams[name].seed = derive_seed(at).value
                /\ rng.streams[name].pos =
                      2 * DrawsOf(name, settings.regions) * Requests(i)

C5_Witness ==
    /\ Begun = 3
    /\ "population" \in DOMAIN rng.streams
    /\ rng.streams["population"].pos = 6 * settings.regions
    /\ rng.master.pos = 8 * Len(SystemNames)

\* C7: when a system returns an error the run ends there: the failing system
\* is the last thing the tick did, the tick counter and days_elapsed are not
\* advanced, no snapshot and no hook frame exists for that tick, and nothing
\* more happens.
C7_SystemErrorAborts ==
    (\E i \in 1..Len(invoked) :
        ~invoked[i].ok /\ invoked[i].name \in NameSet) =>
        /\ eng.pc = "failed"
        /\ eng.cause = "system"
        /\ Len(invoked) = eng.sys_idx
        /\ ~invoked[Len(invoked)].ok
        /\ world.tick = eng.current_tick
        /\ world.days_elapsed = eng.current_tick * world.dt_days
        /\ \A T \in files : T <= eng.current_tick
        /\ \A k \in 1..Len(web.frames) : web.frames[k].tick <= eng.current_tick
        /\ web.hook_calls = (IF settings.hook THEN eng.current_tick - settings.t0 ELSE 0)
        /\ ~web.simulation_done
        /\ ~ENABLED Next

C7_Witness ==
    /\ eng.pc = "failed"
    /\ eng.cause = "system"
    /\ Len(invoked) = 3
    /\ Begun = 2
    /\ eng.remaining = 1

\* C8: when the snapshot write fails at post-advance tick T the run ends
\* there: the tick counter stays at T, no file exists for T, and nothing
\* more happens (no system of a later tick runs).
C8_SnapshotErrorAborts ==
    (\E i \in 1..Len(invoked) :
        ~invoked[i].ok /\ invoked[i].name = "maybe_write") =>
        /\ eng.pc = "failed"
        /\ eng.cause = "snapshot"
        /\ world.tick = eng.current_tick + 1
        /\ maybe_snapshot(world.tick, settings.snapshot_interval_ticks)
        /\ world.tick \notin files
        /\ invoked[Len(invoked)] = Event("maybe_write", world.tick, FALSE)
        /\ Len(invoked) = Len(SystemNames) + 2
        /\ ~ENABLED Next

C8_Witness ==
    /\ eng.pc = "failed"
    /\ eng.cause = "snapshot"
    /\ eng.remaining = 2
    /\ world.tick = 2

---------------------------------------------------------------------------
(* Properties of the simulation kernel                                     *)

\* The system that ran last in the current tick
LastSystem ==
    IF invoked = << >> THEN "none"
    ELSE invoked[Min(Len(invoked), Len(SystemNames))].name

\* The shock Population drew for a region: the regions are visited in
\* ascending id and each takes one value from the substream
ShockOf(id) ==
    LET earlier == Cardinality({j \in DOMAIN hist.before.populations : j < id})
    IN gen_range([hist.stream EXCEPT !.pos = @ + 2 * earlier],
                 Dec(975, 1000), Dec(1025, 1000)).value

DesiredEmployment(id) ==
    LET econ == hist.before.economies[id]
    IN Round(Mul(Mul(econ.labor_demand, econ.job_matching_efficiency),
                 ShockOf(id)))

\* C9: every region has 0 <= employed <= citizens at all times; the
\* Population step leaves employed at the desired employment clamped to
\* [0, citizens before the step] and capped at the citizens after it, and
\* no other system changes a population.
C9_EmployedWithinCitizens ==
    \A id \in DOMAIN world.populations :
        LET p == world.populations[id]
            b == hist.before.populations[id]
        IN /\ 0 <= p.employed
           /\ p.employed <= p.citizens
           /\ LastSystem = "population" =>
                 p.employed = Min(Clamp(DesiredEmployment(id), 0, b.citizens),
                                  p.citizens)
           /\ LastSystem \notin {"none", "population"} => p = b

C9_Witness ==
    /\ LastSystem = "population"
    /\ eng.current_tick >= 1
    /\ \E id \in DOMAIN world.populations :
          LET p == world.populations[id]
              b == hist.before.populations[id]
          IN /\ p.citizens > 0
             /\ p.citizens < b.citizens
             /\ DesiredEmployment(id) > p.citizens
             /\ p.employed = p.citizens

\* C10: with non-negative stocks and parameters at the start, the food and
\* energy stocks of every region are >= 0 at every tick boundary and after
\* every system step; Environment only adds to them, Bookkeeping leaves
\* them clamped, and only Environment and Economy change them.
C10_StocksNonNegative ==
    \A id \in DOMAIN world.resources :
        LET stock == world.resources[id]
            b == hist.before.resources[id]
        IN /\ stock.food >= 0
           /\ stock.energy >= 0
           /\ LastSystem = "environment" =>
                 (stock.food >= b.food /\ stock.energy >= b.energy)
           /\ LastSystem = "bookkeeping" => stock = clamp_non_negative(b)
           /\ LastSystem \notin {"none", "environment", "economy"} => stock = b

C10_Witness ==
    /\ LastSystem = "economy"
    /\ \E id \in DOMAIN world.resources :
          /\ hist.before.resources[id].food > 0
          /\ world.resources[id].food = 0
          /\ world.economies[id].food_shortage_ratio > 0
          /\ world.resources[id].energy > 0

---------------------------------------------------------------------------
(* The kernel on scenarios that differ in the books of their first region  *)

\* Scenarios of 1..MaxRegions regions: one of firsts, then regions alike
ScenariosOf(firsts) ==
    {[dt_days |-> Dec(1, 1),
      regions |-> [i \in 1..n |-> IF i = 1 THEN a ELSE BaseRegion]] :
        a \in firsts, n \in 1..MaxRegions}

\* The engine as built for a scenario of the given set, before the first tick
InitScenarios(scenarios) ==
    /\ settings \in [ticks : {MaxTicks}, t0 : {0},
                     snapshot_interval_ticks : {0},
                     seed : 0..MaxSeed, hook : {FALSE}, faults : {FALSE},
                     scenario : scenarios]
    /\ world = build_world(settings.scenario)
    /\ rng = RngManager_new(settings.seed)
    /\ runB = [rng |-> RngManager_new(settings.seed)]
    /\ eng = [pc |-> "loop", remaining |-> settings.ticks, sys_idx |-> 0,
              current_tick |-> 0, cause |-> "none",
              snapshot |-> NoSnapshot]
    /\ invoked = << >>
    /\ files = {}
    /\ web = [latest_frame |-> NoFrame, frames |-> << >>, sent |-> << >>,
              simulation_done |-> FALSE, final_frame |-> NoFrame,
              hook_calls |-> 0]
    /\ hist = [before |-> world, stream |-> seed_from_u64(settings.seed)]

\* What the first region's bank starts with: deposits, loans, yearly rates
\* high enough to show within a day, and the share of a surplus invested
FinanceRegions ==
    {With(BaseRegion, v) :
        v \in [initial_deposits : {0, Dec(100, 1)},
               initial_loans : {0, Dec(120, 1), Dec(400, 1)},
               default_rate : {Dec(1, 100), Dec(365, 10), Dec(365, 1)},
               policy_rate : {Dec(2, 100), Dec(365, 10)},
               loan_rate_spread : {Dec(40, 100), Dec(49, 100)},
               infrastructure_spend_fraction : {Dec(12, 100), Dec(1, 1)},
               transport_capacity : {Dec(5, 1), Dec(100, 1)}]}

FinanceScenarios == ScenariosOf(FinanceRegions)

InitFinance == InitScenarios(FinanceScenarios)

SpecFinance == InitFinance /\ [][NextKernel]_vars

---------------------------------------------------------------------------
(* Properties of the books: deposits, loans, pending investment            *)

\* C11: starting from bank_deposits >= 0, loan_balance >= 0 and
\* pending_investment >= 0, the three stay >= 0 for every region at every
\* tick boundary and after every system step; the deposits and loans are
\* changed by Infrastructure and Finance only, and pending_investment falls
\* in Infrastructure only and is raised by Finance and Policy only.
C11_BooksNonNegative ==
    \A id \in DOMAIN world.finances :
        LET f == world.finances[id]
            b == hist.before.finances[id]
            p == world.infrastructure[id].pending_investment
            bp == hist.before.infrastructure[id].pending_investment
        IN /\ f.bank_deposits >= 0
           /\ f.loan_balance >= 0
           /\ p >= 0
           /\ LastSystem \notin {"none", "infrastructure", "finance"} =>
                 /\ f.bank_deposits = b.bank_deposits
                 /\ f.loan_balance = b.loan_balance
           /\ LastSystem = "infrastructure" => p <= bp
           /\ LastSystem \in {"finance", "policy"} => p >= bp
           /\ LastSystem \notin {"none", "infrastructure", "finance", "policy"}
                 => p = bp

C11_Witness ==
    /\ eng.pc = "loop"
    /\ world.tick = MaxTicks
    /\ \E id \in DOMAIN world.finances :
          /\ world.finances[id].bank_deposits = 0
          /\ world.finances[id].loan_balance > 0
          /\ world.finances[id].cumulative_defaults > 0
          /\ world.infrastructure[id].pending_investment > 0

---------------------------------------------------------------------------
(* The kernel on scenarios that differ in the markets of their first region *)

\* What the first region's market starts with; a scenario file may hold a
\* negative stock, which nothing rejects, and may post energy at the floor
\* of 0.1
EconomyRegions ==
    {With(BaseRegion, v) :
        v \in [food : {-Dec(20, 1), Dec(5, 1), Dec(30, 1)},
               energy : {0, Dec(30, 1)},
               transport_capacity : {Dec(5, 1), Dec(100, 1)},
               power_capacity : {Dec(2, 1), Dec(100, 1)},
               employment_rate : {Dec(20, 100), Dec(65, 100)},
               citizens : {0, 12},
               energy_price : {Dec(1, 10), Dec(125, 100)}]}

EconomyScenarios == ScenariosOf(EconomyRegions)

InitEconomy == InitScenarios(EconomyScenarios)

SpecEconomy == InitEconomy /\ [][NextKernel]_vars

\* x lies in [0, 1]
InUnit(x) == 0 <= x /\ x <= Dec(1, 1)

---------------------------------------------------------------------------
(* Properties of the ratios                                                *)

\* C12: at every tick boundary (and after every system step) and for every
\* region, reliability, approval_rating, food_shortage_ratio,
\* energy_shortage_ratio, transport_utilization and transport_shortfall lie
\* in [0, 1], the initial reliability and approval being in [0, 1].
C12_RatiosInUnit ==
    \A id \in DOMAIN world.economies :
        /\ InUnit(world.infrastructure[id].reliability)
        /\ InUnit(world.policies[id].approval_rating)
        /\ InUnit(world.economies[id].food_shortage_ratio)
        /\ InUnit(world.economies[id].energy_shortage_ratio)
        /\ InUnit(world.economies[id].transport_utilization)
        /\ InUnit(world.economies[id].transport_shortfall)

C12_Witness ==
    /\ eng.pc = "loop"
    /\ world.tick >= 1
    /\ \E id \in DOMAIN world.economies :
          /\ settings.scenario.regions[id + 1].food < 0
          /\ world.economies[id].food_shortage_ratio = Dec(1, 1)
          /\ world.economies[id].transport_shortfall > 0
          /\ world.infrastructure[id].reliability < Dec(1, 1)
          /\ world.policies[id].approval_rating < Dec(65, 100)

---------------------------------------------------------------------------
(* The kernel on scenarios that differ in the policy of their first region *)

\* What the first region's government starts with: the tax rate and the
\* transfer at the ends of their bands and inside them, few or many
\* employed, nobody living there, or everybody dying in the first tick
PolicyRegions ==
    {With(BaseRegion, v) :
        v \in [citizens : {0, 12},
               tax_rate : {Dec(4, 100), Dec(24, 100), Dec(65, 100)},
               transfer_per_capita :
                   {<< >>, << Dec(20, 1) >>, << Dec(400, 1) >>},
               employment_rate : {Dec(20, 100), Dec(65, 100), Dec(1, 1)},
               annual_death_rate : {0, Dec(365, 1)}]}

PolicyScenarios == ScenariosOf(PolicyRegions)

InitPolicy == InitScenarios(PolicyScenarios)

SpecPolicy == InitPolicy /\ [][NextKernel]_vars

---------------------------------------------------------------------------
(* Properties of the fiscal rules                                          *)

---------------------------------------------------------------------------
(* The kernel on scenarios that differ in the research of their first      *)
(* region                                                                  *)

\* What the first region's laboratories start with: techs already known, a
\* research budget or none, and an efficiency that completes a project
\* within a tick, within two, or never within the run
TechRegions ==
    {With(BaseRegion, v) :
        v \in [starting_techs :
                   {<< >>, << "adaptive_farming" >>,
                    << "adaptive_farming", "automation_lines" >>},
               research_efficiency : {Dec(1, 1), Dec(150, 1), Dec(300, 1)},
               rnd_budget_per_capita : {0, Dec(8, 1)},
               citizens : {0, 12}]}

TechScenarios == ScenariosOf(TechRegions)

InitTech == InitScenarios(TechScenarios)

SpecTech == InitTech /\ [][NextKernel]_vars

\* No element of the list occurs twice
NoDuplicates(seq) == \A i, j \in 1..Len(seq) : seq[i] = seq[j] => i = j

\* The list a is the beginning of the list b
IsPrefix(a, b) == Len(a) <= Len(b) /\ SubSeq(b, 1, Len(a)) = a

---------------------------------------------------------------------------
(* Properties of research                                                  *)

\* C14: starting from a duplicate-free list, a region's unlocked list never
\* holds a tech id twice and never loses an entry: each step leaves the
\* list as it was or with one id added at its end, and a project is only
\* ever open for a tech that is not yet unlocked.
C14_UnlockedIsSet ==
    \A id \in DOMAIN world.technology :
        LET tech == world.technology[id]
        IN /\ NoDuplicates(tech.unlocked)
           /\ IsPrefix(hist.before.technology[id].unlocked, tech.unlocked)
           /\ Len(tech.unlocked)
                 <= Len(hist.before.technology[id].unlocked) + 1
           /\ tech.active_project # << >>
                 => tech.active_project[1].tech_id \notin Elems(tech.unlocked)

C14_Witness ==
    /\ LastSystem = "technology"
    /\ \E id \in DOMAIN world.technology :
          LET tech == world.technology[id]
              b == hist.before.technology[id]
          IN /\ Len(settings.scenario.regions[id + 1].starting_techs) = 1
             /\ Len(b.unlocked) = 2
             /\ Len(tech.unlocked) = 3
             /\ tech.active_project = << >>

---------------------------------------------------------------------------
(* Properties of the funding of outflows                                   *)

\* The books after an outflow of need > 0, as the claim states them: the
\* deposits fall by what they can cover, the loans rise by the rest
Charged(finance, need) ==
    [finance EXCEPT
        !.bank_deposits = Max(@ - need, 0),
        !.loan_balance = @ + Max(need - finance.bank_deposits, 0)]

\* The maintenance cost Infrastructure charged a region in the last step
MaintenanceOf(id) ==
    Mul(hist.before.infrastructure[id].maintenance_cost, world.dt_days)

\* The deficit Finance found for a region: the wage bill above the revenue
DeficitOf(id) ==
    world.economies[id].wage_bill - world.economies[id].sales_revenue

\* What Finance leaves of books charged with the region's deficit
FinanceAfterCharge(id) ==
    adjust_spread(write_off(accrue_interest(
        Charged(hist.before.finances[id], DeficitOf(id)), world.dt_days),
        world.economies[id], world.dt_days))

\* Both outflows are funded from the deposits first and the loans grow by
\* exactly the uncovered remainder, the deposits then being 0
FundedFromDeposits ==
    \A id \in DOMAIN world.finances :
        LET f == world.finances[id]
            b == hist.before.finances[id]
        IN /\ (LastSystem = "infrastructure" /\ MaintenanceOf(id) > 0) =>
                 /\ f = Charged(b, MaintenanceOf(id))
                 /\ (b.bank_deposits - f.bank_deposits)
                       + (f.loan_balance - b.loan_balance) = MaintenanceOf(id)
                 /\ f.loan_balance > b.loan_balance => f.bank_deposits = 0
                 /\ b.bank_deposits = 0 => f.loan_balance > 0
           /\ (LastSystem = "infrastructure" /\ MaintenanceOf(id) <= 0) => f = b
           /\ (LastSystem = "finance" /\ DeficitOf(id) > 0) =>
                 f = FinanceAfterCharge(id)

\* The defaults of the last Finance step wrote off less than the whole of
\* a region's loans: default_rate * (1 + credit_stress) * dt_years < 1
PartialWriteOff(id) ==
    Mul(hist.before.finances[id].default_rate,
        Dec(1, 1) + world.finances[id].credit_stress) * world.dt_days
      < DaysPerYear * SCALE * SCALE

\* A region that met an outflow with empty deposits has loans after the tick
LoansAfterOutflow(id) ==
    /\ (/\ LastSystem = "finance"
        /\ hist.before.finances[id].bank_deposits = 0
        /\ DeficitOf(id) > 0)
          => world.finances[id].loan_balance > 0
    /\ (/\ eng.pc = "loop" /\ world.tick = 1
        /\ settings.scenario.regions[id + 1].initial_deposits = 0
        /\ settings.scenario.regions[id + 1].maintenance_cost > 0)
          => world.finances[id].loan_balance > 0

\* C15 as stated: an outflow is funded from the deposits first, the loans
\* grow by exactly the uncovered remainder, and with empty deposits any
\* positive outflow leaves loan_balance > 0 after the tick.
C15_Original ==
    /\ FundedFromDeposits
    /\ \A id \in DOMAIN world.finances : LoansAfterOutflow(id)

\* C15, amended: an outflow is funded from the deposits first and the loans
\* grow by exactly the uncovered remainder; with empty deposits any
\* positive outflow leaves loan_balance > 0 after the charge, and after the
\* tick unless the defaults of the tick's Finance step write off the whole
\* balance.
C15_OutflowFunding ==
    /\ FundedFromDeposits
    /\ \A id \in DOMAIN world.finances :
          PartialWriteOff(id) => LoansAfterOutflow(id)

\* Witness: Finance met a deficit with empty deposits, the loans took the
\* whole of it and the defaults wrote off only a part
C15_Witness ==
    /\ LastSystem = "finance"
    /\ \E id \in DOMAIN world.finances :
          /\ hist.before.finances[id].bank_deposits = 0
          /\ DeficitOf(id) > 0
          /\ PartialWriteOff(id)
          /\ world.finances[id].cumulative_defaults
                > hist.before.finances[id].cumulative_defaults
          /\ world.finances[id].loan_balance
                > hist.before.finances[id].loan_balance

---------------------------------------------------------------------------
(* Properties of the transport cap                                         *)

\* The total dispatch the last Economy step found for a region
TotalDispatch(id) ==
    LET scaled == scaled_demand(world.populations[id],
                                hist.before.economies[id], world.dt_days)
    IN scaled.food + scaled.energy

\* transport_capacity * dt of a region, as the last Economy step found it
TransportPerTick(id) ==
    Max(Mul(world.infrastructure[id].transport_capacity, world.dt_days), 0)

\* C16 as stated: transport_shortfall is > 0 whenever transport_capacity*dt
\* is below the total dispatch and 0 whenever it is at least the total
\* dispatch.
C16_Original ==
    \A id \in DOMAIN world.economies :
        (LastSystem = "economy" /\ world.populations[id].citizens > 0) =>
            /\ TransportPerTick(id) < TotalDispatch(id)
                  => world.economies[id].transport_shortfall > 0
            /\ TransportPerTick(id) >= TotalDispatch(id)
                  => world.economies[id].transport_shortfall = 0

\* C16, amended: transport_shortfall is the undelivered share of the total
\* dispatch, the deliveries being cut by the transport capacity and by the
\* stocks alike.  It is > 0 whenever transport_capacity*dt is below the
\* total dispatch by more than EPS; when transport_capacity*dt is at least
\* the total dispatch it is 0 provided neither stock ran out, and it is 0
\* for a region without citizens.
C16_TransportShortfall ==
    \A id \in DOMAIN world.economies :
        LastSystem = "economy" =>
            /\ (/\ world.populations[id].citizens > 0
                /\ TransportPerTick(id) < TotalDispatch(id) - EPS)
                  => world.economies[id].transport_shortfall > 0
            /\ (/\ world.populations[id].citizens > 0
                /\ TransportPerTick(id) >= TotalDispatch(id)
                /\ world.resources[id].food > 0
                /\ world.resources[id].energy > 0)
                  => world.economies[id].transport_shortfall = 0
            /\ world.populations[id].citizens = 0
                  => world.economies[id].transport_shortfall = 0

\* Witness: a region had transport to spare and still fell short because
\* its food ran out, while another with transport to spare delivered all
C16_Witness ==
    /\ LastSystem = "economy"
    /\ \E id \in DOMAIN world.economies :
          /\ world.populations[id].citizens > 0
          /\ TransportPerTick(id) >= TotalDispatch(id)
          /\ TotalDispatch(id) > EPS
          /\ world.resources[id].food = 0
          /\ world.economies[id].transport_shortfall > 0
    /\ \E id \in DOMAIN world.economies :
          /\ world.populations[id].citizens > 0
          /\ TransportPerTick(id) >= TotalDispatch(id)
          /\ TotalDispatch(id) > EPS
          /\ world.economies[id].transport_shortfall = 0

---------------------------------------------------------------------------
(* Properties of the transfer rule                                         *)

\* unemployment_rate - target_unemployment_rate of a region, as the last
\* Policy step found it
UnemploymentGap(id) ==
    LET pop == world.populations[id]
    IN (IF pop.citizens > 0
        THEN Dec(1, 1) - Div(FromInt(pop.employed), FromInt(pop.citizens))
        ELSE 0) - hist.before.policies[id].target_unemployment_rate

---------------------------------------------------------------------------
(* Properties of the posted prices                                         *)

\* The price of a good rose in the last step exactly if the good was short
\* by more than 0.001, and is not below 0.1
PriceFollowsShortage(before, after, shortage) ==
    /\ after > before <=> shortage > Dec(1, 1000)
    /\ after >= Posted(Dec(1, 10))

\* C18: in an Economy step for a region with citizens > 0, a positive
\* price_adjustment_rate and a price of at least 0.1 before the step, the
\* price of a good is strictly higher after the step if and only if the
\* shortage ratio of that good, computed in the same step, exceeds 0.001;
\* the price after the step is never below 0.1.
C18_PriceRises ==
    \A id \in DOMAIN world.economies :
        LET before == hist.before.economies[id]
            after == world.economies[id]
        IN (/\ LastSystem = "economy"
            /\ world.populations[id].citizens > 0
            /\ before.price_adjustment_rate > 0)
              => /\ before.food_price >= Posted(Dec(1, 10))
                    => PriceFollowsShortage(before.food_price, after.food_price,
                                            after.food_shortage_ratio)
                 /\ before.energy_price >= Posted(Dec(1, 10))
                    => PriceFollowsShortage(before.energy_price,
                                            after.energy_price,
                                            after.energy_shortage_ratio)

\* Witness: the food of a region was short by less than the whole demand
\* and its price rose, while its energy, posted at 0.1 and stocked above
\* 1.15 times the inventory target, stayed at 0.1
C18_Witness ==
    /\ LastSystem = "economy"
    /\ \E id \in DOMAIN world.economies :
          LET pop == world.populations[id]
              before == hist.before.economies[id]
              after == world.economies[id]
              inventory_target_energy ==
                  Mul(Mul(Mul(FromInt(pop.citizens),
                              pop.energy_consumption_per_capita), world.dt_days),
                      before.target_inventory_days)
          IN /\ pop.citizens > 0
             /\ after.food_shortage_ratio > Dec(1, 1000)
             /\ after.food_shortage_ratio < Dec(1, 1)
             /\ after.food_price > before.food_price
             /\ after.energy_shortage_ratio = 0
             /\ world.resources[id].energy
                   > Mul(inventory_target_energy, Dec(115, 100))
             /\ before.energy_price = Posted(Dec(1, 10))
             /\ after.energy_price = Posted(Dec(1, 10))

---------------------------------------------------------------------------
(* Properties of the productivity write-back                               *)

\* The productivities that the baselines of a region give with a list of
\* unlocked techs
ProductivityWith(id, unlocked) ==
    LET tech == hist.before.technology[id]
        mult == aggregate_productivity_multipliers(unlocked)
    IN [food |-> Mul(tech.base_food_productivity, mult.food),
        energy |-> Mul(tech.base_energy_productivity, mult.energy)]

\* The two productivities the Economy of a region holds
Productivity(economy) ==
    [food |-> economy.food_productivity_per_worker,
     energy |-> economy.energy_productivity_per_worker]

\* C19: after the Technology system has run, the food and energy
\* productivity_per_worker of each region's Economy equal the base
\* productivity times the product of the catalog multipliers of the techs
\* that were unlocked when the step began, whatever the fields held before;
\* no other system writes them, so a tech unlocked in tick N shows in them at
\* the end of tick N+1 and is first used by Economy in tick N+2.
C19_ProductivityLags ==
    \A id \in DOMAIN world.technology :
        /\ LastSystem = "technology"
              => Productivity(world.economies[id])
                    = ProductivityWith(id, hist.before.technology[id].unlocked)
        /\ LastSystem \notin {"none", "technology"}
              => /\ Productivity(world.economies[id])
                       = Productivity(hist.before.economies[id])
                 /\ world.technology[id].unlocked
                       = hist.before.technology[id].unlocked

\* Witness: a Technology step unlocked a tech and changed the productivities,
\* to what the techs known before give and not to what the new list gives
C19_Witness ==
    /\ LastSystem = "technology"
    /\ \E id \in DOMAIN world.technology :
          /\ Len(world.technology[id].unlocked)
                > Len(hist.before.technology[id].unlocked)
          /\ Productivity(world.economies[id])
                # Productivity(hist.before.economies[id])
          /\ Productivity(world.economies[id]).food
                # ProductivityWith(id, world.technology[id].unlocked).food

---------------------------------------------------------------------------
(* Properties of the spread rule                                           *)

\* The spread rule as the claim states it, for books as the defaults leave
\* them: a ratio above the target, or an infinite one, raises the spread by
\* 5 % times the pressure, which is 1 in the infinite case
StatedSpread(finance, loan_rate_spread) ==
    LET infinite == finance.bank_deposits <= EPS /\ finance.loan_balance > 0
        loan_to_deposit ==
            IF finance.bank_deposits > EPS
            THEN Div(finance.loan_balance, finance.bank_deposits)
            ELSE 0
        pressure ==
            IF infinite THEN Dec(1, 1)
            ELSE Min(Div(loan_to_deposit, finance.target_loan_to_deposit)
                       - Dec(1, 1), Dec(1, 1))
        spread ==
            IF infinite \/ loan_to_deposit > finance.target_loan_to_deposit
            THEN Grow(loan_rate_spread, Dec(5, 100), pressure)
            ELSE Mul(loan_rate_spread, Dec(995, 1000))
    IN Clamp(spread, 0, Dec(1, 2))

\* C20 as stated: in the Finance step a loan-to-deposit ratio above the
\* target, counting as infinite with loans and no deposits, multiplies
\* loan_rate_spread by 1 + 0.05 * min(L/T - 1, 1), so by 1.05 in the infinite
\* case; otherwise the spread is multiplied by 0.995; the result is clamped
\* to [0, 0.5].
C20_Original ==
    \A id \in DOMAIN world.finances :
        LastSystem = "finance" =>
            world.finances[id].loan_rate_spread
              = StatedSpread(world.finances[id],
                             hist.before.finances[id].loan_rate_spread)

\* The same for the regions that hold deposits or no loans: what the code
\* does do
C20_FiniteCases ==
    \A id \in DOMAIN world.finances :
        (/\ LastSystem = "finance"
         /\ \/ world.finances[id].bank_deposits > EPS
            \/ world.finances[id].loan_balance <= 0) =>
            world.finances[id].loan_rate_spread
              = StatedSpread(world.finances[id],
                             hist.before.finances[id].loan_rate_spread)

\* Witness: Finance left a region with loans and no deposits and lowered its
\* spread; it raised the spread of a region with deposits below its loans
C20_Witness ==
    /\ LastSystem = "finance"
    /\ \E id \in DOMAIN world.finances :
          /\ world.finances[id].bank_deposits = 0
          /\ world.finances[id].loan_balance > 0
          /\ world.finances[id].loan_rate_spread
                < hist.before.finances[id].loan_rate_spread

---------------------------------------------------------------------------
(* Properties of the reliability update                                    *)

\* C21 as stated: the new reliability is the blend 0.7 * old + 0.3 *
\* reliability_score with the decay by degrade * 0.4 applied after it, that
\* is (0.7 * old + 0.3 * reliability_score) * (1 - 0.4 * degrade).
C21_Original ==
    \A id \in DOMAIN world.infrastructure :
        LET old == hist.before.infrastructure[id].reliability
            degrade == degrade_of(hist.before.infrastructure[id], world.dt_days)
            score == reliability_score(hist.before.economies[id])
        IN LastSystem = "infrastructure" =>
              world.infrastructure[id].reliability
                = Mul(Mul(old, Dec(7, 10)) + Mul(score, Dec(3, 10)),
                      Dec(1, 1) - Mul(degrade, Dec(4, 10)))

\* What the code does: the decay is applied to the old reliability only, and
\* the blend with the score comes after it, so the new reliability is
\* 0.7 * old * (1 - 0.4 * degrade) + 0.3 * reliability_score, which is not
\* below what the stated order gives
C21_DecayThenBlend ==
    \A id \in DOMAIN world.infrastructure :
        LET old == hist.before.infrastructure[id].reliability
            degrade == degrade_of(hist.before.infrastructure[id], world.dt_days)
            score == reliability_score(hist.before.economies[id])
            factor == Dec(1, 1) - Mul(degrade, Dec(4, 10))
        IN LastSystem = "infrastructure" =>
              /\ world.infrastructure[id].reliability
                   = Mul(Mul(old, factor), Dec(7, 10)) + Mul(score, Dec(3, 10))
              /\ world.infrastructure[id].reliability
                   >= Mul(Mul(old, Dec(7, 10)) + Mul(score, Dec(3, 10)), factor)

\* Witness: an Infrastructure step with wear and a positive score left the
\* reliability above what the stated order gives
C21_Witness ==
    /\ LastSystem = "infrastructure"
    /\ \E id \in DOMAIN world.infrastructure :
          LET old == hist.before.infrastructure[id].reliability
              degrade == degrade_of(hist.before.infrastructure[id], world.dt_days)
              score == reliability_score(hist.before.economies[id])
          IN /\ degrade > 0
             /\ score > 0
             /\ score < Dec(1, 1)
             /\ world.infrastructure[id].reliability
                  > Mul(Mul(old, Dec(7, 10)) + Mul(score, Dec(3, 10)),
                        Dec(1, 1) - Mul(degrade, Dec(4, 10)))

---------------------------------------------------------------------------
(* Properties of the one-tick lag between Economy and its readers          *)

\* The starvation penalty Population found for a region in the last step:
\* ceil(citizens * food_shortage_ratio * 0.05), from what Economy had left
StarvationPenalty(id) ==
    CeilDiv(hist.before.populations[id].citizens
              * hist.before.economies[id].food_shortage_ratio * Dec(5, 100),
            SCALE * SCALE)

---------------------------------------------------------------------------
(* Properties of the list of starving regions                              *)

\* The names of the regions ids, in that order, that Population found
\* starving in the last step
RECURSIVE StarvingAmong(_)
StarvingAmong(ids) ==
    IF ids = << >> THEN << >>
    ELSE IF StarvationPenalty(Head(ids)) > 0
         THEN << world.regions[Head(ids)].name >> \o StarvingAmong(Tail(ids))
         ELSE StarvingAmong(Tail(ids))

\* C23: Population leaves in starving_regions the names of exactly the
\* regions whose penalty ceil(citizens * food_shortage_ratio * 0.05) was
\* > 0 in that step, none from earlier ticks; the systems up to Bookkeeping
\* leave the list alone, and Bookkeeping leaves the same names sorted and
\* free of duplicates, which is how the list stands after the tick.
C23_StarvingRegions ==
    LET list == world.bookkeeping.starving_regions
        was == hist.before.bookkeeping.starving_regions
    IN /\ LastSystem = "population"
             => list = StarvingAmong(
                           sort(CHOOSE keys \in HashOrders(DOMAIN world.regions) :
                                    TRUE))
       /\ LastSystem \in {"economy", "finance", "policy", "technology"}
             => list = was
       /\ LastSystem = "bookkeeping"
             => /\ Elems(list) = Elems(was)
                /\ \A i, j \in 1..Len(list) :
                      i < j => NameRank(list[i]) < NameRank(list[j])

\* Witness: Bookkeeping merged the names of two starving regions called
\* alike, after a tick whose list Population had first emptied of the
\* name left by the tick before
C23_Witness ==
    /\ LastSystem = "bookkeeping"
    /\ eng.current_tick >= 2
    /\ hist.before.bookkeeping.starving_regions = << "isle", "isle" >>
    /\ world.bookkeeping.starving_regions = << "isle" >>

---------------------------------------------------------------------------
(* Properties of the research projects                                     *)

\* The progress a region's research made in the last Technology step
ProgressGain(id) ==
    Mul(Mul(Max(hist.before.technology[id].current_allocation, 0),
            hist.before.technology[id].research_efficiency), world.dt_days)

\* The catalog entry i can be researched with the techs of the list
Researchable(i, unlocked) ==
    /\ TECH_TREE[i].id \notin Elems(unlocked)
    /\ TECH_TREE[i].prerequisites \subseteq Elems(unlocked)

\* The project is new, for the first researchable entry of the catalog
FreshProject(project, unlocked) ==
    \E i \in 1..Len(TECH_TREE) :
        /\ Researchable(i, unlocked)
        /\ \A j \in 1..(i - 1) : ~Researchable(j, unlocked)
        /\ project.tech_id = TECH_TREE[i].id
        /\ project.difficulty = TECH_TREE[i].difficulty
        /\ project.progress = 0

\* C24: a region has at most one active project.  A project is opened only
\* when none is active and the allocation is positive; it is the first
\* catalog entry, in declaration order, that is not unlocked and has all its
\* prerequisites unlocked, and it starts from progress 0, to which the
\* step's own gain is then added.  An open project stays the same tech,
\* gaining progress, until its progress reaches its difficulty; then its
\* tech is unlocked and the project closed.  At most one tech is unlocked
\* per region and tick, and no other system touches the research.
C24_OneProject ==
    \A id \in DOMAIN world.technology :
        LET b == hist.before.technology[id]
            t == world.technology[id]
            gain == ProgressGain(id)
            Advanced(project) == [project EXCEPT !.progress = @ + gain]
            Unlocks(project) ==
                /\ t.active_project = << >>
                /\ t.unlocked = IF project.tech_id \in Elems(b.unlocked)
                                THEN b.unlocked
                                ELSE Append(b.unlocked, project.tech_id)
            Carries(project) ==
                /\ t.active_project = << Advanced(project) >>
                /\ t.unlocked = b.unlocked
            Steps(project) ==
                IF project.progress + gain >= project.difficulty
                THEN Unlocks(project) ELSE Carries(project)
        IN /\ Len(t.active_project) <= 1
           /\ Len(t.unlocked) <= Len(b.unlocked) + 1
           /\ LastSystem \notin {"none", "technology"}
                 => t.active_project = b.active_project /\ t.unlocked = b.unlocked
           /\ (LastSystem = "technology" /\ b.current_allocation <= 0)
                 => t.active_project = b.active_project /\ t.unlocked = b.unlocked
           /\ (/\ LastSystem = "technology"
               /\ b.current_allocation > 0
               /\ b.active_project # << >>)
                 => Steps(b.active_project[1])
           /\ (/\ LastSystem = "technology"
               /\ b.current_allocation > 0
               /\ b.active_project = << >>)
                 => \/ /\ \A i \in 1..Len(TECH_TREE) : ~Researchable(i, b.unlocked)
                       /\ t.active_project = << >>
                       /\ t.unlocked = b.unlocked
                    \/ \E project \in
                          {[tech_id |-> TECH_TREE[i].id, progress |-> 0,
                            difficulty |-> TECH_TREE[i].difficulty] :
                               i \in 1..Len(TECH_TREE)} :
                          FreshProject(project, b.unlocked) /\ Steps(project)

\* Witness: after a project of this run was completed, the next step opened
\* a new one, which holds that step's gain only and remains open
C24_Witness ==
    /\ LastSystem = "technology"
    /\ \E id \in DOMAIN world.technology :
          LET b == hist.before.technology[id]
              t == world.technology[id]
          IN /\ Len(b.unlocked)
                   > Len(settings.scenario.regions[id + 1].starting_techs)
             /\ b.active_project = << >>
             /\ t.active_project # << >>
             /\ t.active_project[1].progress = ProgressGain(id)
             /\ ProgressGain(id) > 0
             /\ \E i \in 1..Len(TECH_TREE) :
                   /\ Researchable(i, b.unlocked)
                   /\ TECH_TREE[i].id # t.active_project[1].tech_id

---------------------------------------------------------------------------
(* Properties of the defaults                                              *)

\* The loan balance of a region in the last Finance step when the defaults
\* were taken: after the funding of a deficit and the interest
LoansBeforeDefaults(id) ==
    LET b == hist.before.finances[id]
        funded == IF DeficitOf(id) > 0 THEN Charged(b, DeficitOf(id)) ELSE b
    IN accrue_interest(funded, world.dt_days).loan_balance

\* The defaults of a region in the last Finance step:
\* loan_balance * default_rate * (1 + credit_stress) * dt_years
DefaultsOf(id) ==
    TimesYears(Mul(LoansBeforeDefaults(id),
                   Mul(hist.before.finances[id].default_rate,
                       Dec(1, 1) + world.finances[id].credit_stress)),
               world.dt_days)

\* C25 as stated: in each Finance step the amount added to
\* cumulative_defaults equals the amount by which the defaults reduce
\* loan_balance, for every default_rate, credit_stress and dt_days, also when
\* default_rate * (1 + credit_stress) * dt_years exceeds 1.
C25_Original ==
    \A id \in DOMAIN world.finances :
        LastSystem = "finance" =>
            world.finances[id].cumulative_defaults
                - hist.before.finances[id].cumulative_defaults
              = LoansBeforeDefaults(id) - world.finances[id].loan_balance

\* What the code does: with a positive balance the whole of the computed
\* defaults is added to cumulative_defaults, while loan_balance falls by the
\* defaults or to 0, whichever is less; the two amounts are equal exactly
\* when the defaults do not exceed the balance
C25_DefaultsBooked ==
    \A id \in DOMAIN world.finances :
        LET added == world.finances[id].cumulative_defaults
                       - hist.before.finances[id].cumulative_defaults
            taken == LoansBeforeDefaults(id) - world.finances[id].loan_balance
        IN LastSystem = "finance" =>
              /\ LoansBeforeDefaults(id) > 0 => added = DefaultsOf(id)
              /\ LoansBeforeDefaults(id) <= 0 => added = 0
              /\ taken = Min(added, LoansBeforeDefaults(id))
              /\ added = taken <=> DefaultsOf(id) <= LoansBeforeDefaults(id)
                                      \/ LoansBeforeDefaults(id) <= 0

\* Witness: the defaults of a step exceeded the balance, which fell to 0,
\* and cumulative_defaults grew by more than the balance had held
C25_Witness ==
    /\ LastSystem = "finance"
    /\ \E id \in DOMAIN world.finances :
          /\ LoansBeforeDefaults(id) > 0
          /\ world.finances[id].loan_balance = 0
          /\ world.finances[id].cumulative_defaults
                - hist.before.finances[id].cumulative_defaults
                   > LoansBeforeDefaults(id)

---------------------------------------------------------------------------
(* Prerequisite closure of the research                                    *)

\* The catalog prerequisites of a tech id (none for an id not in the catalog)
PrerequisitesOf(tech_id) ==
    UNION {def.prerequisites : def \in definition(tech_id)}

\* Every tech of the list has its catalog prerequisites in the list
Closed(unlocked) ==
    \A t \in Elems(unlocked) : PrerequisitesOf(t) \subseteq Elems(unlocked)

\* C26: if the initial unlocked list of a region contains the prerequisites
\* of each of its techs, then in every state of the run every tech in
\* unlocked has all its catalog prerequisites in unlocked, and an active
\* project names a catalog tech that is not unlocked and whose
\* prerequisites are all unlocked.
C26_PrerequisiteClosure ==
    \A id \in DOMAIN world.technology :
        LET tech == world.technology[id]
        IN Closed(settings.scenario.regions[id + 1].starting_techs) =>
              /\ Closed(tech.unlocked)
              /\ tech.active_project # << >> =>
                    /\ definition(tech.active_project[1].tech_id) # {}
                    /\ tech.active_project[1].tech_id \notin Elems(tech.unlocked)
                    /\ PrerequisitesOf(tech.active_project[1].tech_id)
                          \subseteq Elems(tech.unlocked)

\* Witness: a region has unlocked, by research, a tech that has
\* prerequisites, and works on a project that has prerequisites too
C26_Witness ==
    \E id \in DOMAIN world.technology :
        LET tech == world.technology[id]
            start == settings.scenario.regions[id + 1].starting_techs
        IN /\ Closed(start)
           /\ \E t \in Elems(tech.unlocked) \ Elems(start) :
                 PrerequisitesOf(t) # {}
           /\ tech.active_project # << >>
           /\ PrerequisitesOf(tech.active_project[1].tech_id) # {}

---------------------------------------------------------------------------
(* Research to completion: runs long enough to unlock the whole catalog    *)

ResearchTicks == 6

\* What the first region's laboratories start with, and an efficiency that
\* completes every project within a tick or the longer ones within two
ResearchRegions ==
    {With(BaseRegion, v) :
        v \in [starting_techs : {<< >>, << "adaptive_farming" >>},
               research_efficiency : {Dec(200, 1), Dec(400, 1)},
               rnd_budget_per_capita : {0, Dec(8, 1)}]}

InitResearch ==
    /\ settings \in [ticks : {ResearchTicks}, t0 : {0},
                     snapshot_interval_ticks : {0},
                     seed : 0..MaxSeed, hook : {FALSE}, faults : {FALSE},
                     scenario : ScenariosOf(ResearchRegions)]
    /\ world = build_world(settings.scenario)
    /\ rng = RngManager_new(settings.seed)
    /\ runB = [rng |-> RngManager_new(settings.seed)]
    /\ eng = [pc |-> "loop", remaining |-> settings.ticks, sys_idx |-> 0,
              current_tick |-> 0, cause |-> "none",
              snapshot |-> NoSnapshot]
    /\ invoked = << >>
    /\ files = {}
    /\ web = [latest_frame |-> NoFrame, frames |-> << >>, sent |-> << >>,
              simulation_done |-> FALSE, final_frame |-> NoFrame,
              hook_calls |-> 0]
    /\ hist = [before |-> world, stream |-> seed_from_u64(settings.seed)]

\* What a system that returns Ok does to the position of the engine: the
\* step of RunSystem as the engine sees it
SystemRuns == eng.pc = "systems" /\ eng' = AfterSystem(eng, TRUE)

\* The loop of Engine::run is sequential and none of its steps blocks: the
\* step that is due is taken.  The fairness of RunSystem is stated on the
\* position of the engine, which every system step moves.
SpecResearch ==
    /\ InitResearch /\ [][NextKernel]_vars
    /\ WF_vars(BeginTick) /\ WF_eng(SystemRuns) /\ WF_vars(AdvanceTime)
    /\ WF_vars(MaybeWrite) /\ WF_vars(NoHook) /\ WF_vars(Return)

\* The progress a Technology step would add to a project of the region now
GainNow(id) ==
    Mul(Mul(Max(world.technology[id].current_allocation, 0),
            world.technology[id].research_efficiency), world.dt_days)

\* The Technology system is the next to run
AboutToResearch ==
    eng.pc = "systems" /\ SystemNames[eng.sys_idx] = "technology"

\* The ticks that the techs missing from the list need at most, if every
\* tick adds at least floor to the progress of the project
RECURSIVE TicksNeeded(_, _, _)
TicksNeeded(i, unlocked, floor) ==
    IF i > Len(TECH_TREE) THEN 0
    ELSE (IF TECH_TREE[i].id \in Elems(unlocked) THEN 0
          ELSE (TECH_TREE[i].difficulty + floor - 1) \div floor)
           + TicksNeeded(i + 1, unlocked, floor)

\* The research of the region is complete
ResearchDone(id) ==
    /\ \A i \in 1..Len(TECH_TREE) :
          TECH_TREE[i].id \in Elems(world.technology[id].unlocked)
    /\ world.technology[id].active_project = << >>

\* The run is too short for a per-tick gain of at least floor, or a tick
\* of the run adds less than floor to the project of the region
Excused(floor) ==
    \/ settings.ticks
         < TicksNeeded(1, settings.scenario.regions[1].starting_techs, floor)
    \/ AboutToResearch /\ GainNow(0) < floor

\* C27: for a region whose per-tick progress gain is, in every tick, at
\* least a positive constant, in a run of enough ticks for that constant,
\* every tech of the catalog is eventually unlocked; from then on
\* active_project stays empty and unlocked no longer changes.
C27_ResearchCompletes ==
    /\ <>Excused(Dec(15000, 1)) \/ <>[]ResearchDone(0)
    /\ <>Excused(Dec(30000, 1)) \/ <>[]ResearchDone(0)
    /\ [][ResearchDone(0) =>
             /\ ResearchDone(0)'
             /\ world'.technology[0].unlocked = world.technology[0].unlocked]_vars

\* Witness: the region that began with one tech, at the lower efficiency,
\* has unlocked the whole catalog, its longer projects taking two ticks
\* each, and the run goes on to research with nothing left to open
C27_Witness ==
    /\ settings.scenario.regions[1].starting_techs = << "adaptive_farming" >>
    /\ settings.scenario.regions[1].research_efficiency = Dec(200, 1)
    /\ ResearchDone(0)
    /\ AboutToResearch
    /\ GainNow(0) > 0

---------------------------------------------------------------------------
(* Engine::run called twice on one engine, beside a single call for the    *)
(* sum of the ticks on an engine of its own: run A, in pieces, in world,   *)
(* rng and files; run B, at once, in runB; tick by tick in lockstep.       *)

\* Mutant: every call of run starts from a freshly seeded RngManager
EnterRun_reseeded(e, g, ticks) ==
    [eng |-> [e EXCEPT !.pc = "loop", !.remaining = ticks, !.calls = @ + 1],
     rng |-> RngManager_new(settings.seed)]

\* pub fn run(&mut self, world, ticks) { for _ in 0..ticks { ...
\* A call sets up its loop counter and nothing else: self.rng and the
\* snapshot writer are as the last call left them
EnterRun(e, g, ticks) ==
    [eng |-> [e EXCEPT !.pc = "loop", !.remaining = ticks, !.calls = @ + 1],
     rng |-> g]

InitPieces ==
    /\ settings \in {st \in [ticks : 0..MaxTicks, first : 0..MaxTicks, t0 : {0},
                             snapshot_interval_ticks : {0, MaxInterval},
                             seed : 0..MaxSeed, hook : {FALSE},
                             faults : {FALSE},
                             scenario : ScenariosOf(OtherRegions)] :
                        st.first <= st.ticks}
    /\ world = build_world(settings.scenario)
    /\ \E r \in { EnterRun([pc |-> "loop", remaining |-> 0, sys_idx |-> 0,
                            current_tick |-> 0, cause |-> "none",
                            snapshot |-> NoSnapshot, calls |-> 0],
                           RngManager_new(settings.seed), settings.first) } :
          eng = r.eng /\ rng = r.rng
    /\ runB = [world |-> build_world(settings.scenario),
               rng |-> RngManager_new(settings.seed),
               snapshot |-> NoSnapshot, files |-> {}]
    /\ invoked = << >>
    /\ files = {}
    /\ web = [latest_frame |-> NoFrame, frames |-> << >>, sent |-> << >>,
              simulation_done |-> FALSE, final_frame |-> NoFrame,
              hook_calls |-> 0]
    /\ hist = [before |-> world, stream |-> seed_from_u64(settings.seed)]

\* The first call has returned Ok(()); the second call, for the rest
CallAgain ==
    /\ eng.pc = "loop"
    /\ eng.remaining = 0
    /\ eng.calls = 1
    /\ \E r \in { EnterRun(eng, rng, settings.ticks - settings.first) } :
          eng' = r.eng /\ rng' = r.rng
    /\ UNCHANGED <<settings, world, invoked, files, web, runB, hist>>

\* snapshot_writer.maybe_write in both runs, on disks that take the file
MaybeWriteTwin ==
    /\ eng.pc = "snapshot"
    /\ files' = IF maybe_snapshot(world.tick, settings.snapshot_interval_ticks)
                THEN files \cup {world.tick} ELSE files
    /\ runB' = [runB EXCEPT !.files =
                  IF maybe_snapshot(runB.world.tick,
                                    settings.snapshot_interval_ticks)
                  THEN @ \cup {runB.world.tick} ELSE @]
    /\ eng' = AfterWrite(eng, TRUE)
    /\ invoked' = Append(invoked, Event("maybe_write", world.tick, TRUE))
    /\ UNCHANGED <<settings, world, rng, web, hist>>

\* The second call returns
ReturnLast == eng.calls = 2 /\ Return

NextPieces ==
    \/ BeginTick
    \/ RunSystemTwin
    \/ AdvanceTimeTwin
    \/ MaybeWriteTwin
    \/ NoHook
    \/ CallAgain
    \/ ReturnLast

SpecPieces == InitPieces /\ [][NextPieces]_vars

\* A call of run has no ticks to do, or none left
NothingToRun == eng.pc = "loop" /\ eng.remaining = 0

\* C28: Engine::run(world, a) followed, on the same engine, by
\* Engine::run(world, b) leaves the world and every RNG substream as a
\* single Engine::run(world, a + b) leaves them, and writes the same
\* snapshots: the two runs agree after every step, the pieces end at tick
\* a + b, and a call that has no tick to run, Engine::run(world, 0) among
\* them, changes neither the world nor the substreams nor the files.
C28_PiecesEqualWhole ==
    /\ [](/\ world = runB.world
          /\ rng = runB.rng
          /\ files = runB.files
          /\ eng.snapshot = runB.snapshot
          /\ eng.pc = "done" => world.tick = settings.ticks)
    /\ [][NothingToRun => UNCHANGED <<world, rng, files>>]_vars

\* Witness: a run of one tick and then two has returned; the second call
\* wrote the snapshot of tick 2 and drew from the substreams the first left
C28_Witness ==
    /\ eng.pc = "done"
    /\ eng.calls = 2
    /\ settings.first = 1
    /\ settings.ticks = 3
    /\ files = {2}
    /\ Cardinality(DOMAIN world.regions) = 2
    /\ rng.streams["population"].pos = 4 * settings.ticks

---------------------------------------------------------------------------
(* Two runs of one tick, with the same seed, on worlds that differ only in *)
(* the employed of the first region: run A in world, run B in runB         *)

\* The values of employed that the second world is given
EmployedValues == {0, 5, 12, 40}

InitEmployed ==
    /\ settings \in
         {st \in [ticks : {1}, t0 : {0}, snapshot_interval_ticks : {0},
                  seed : 0..MaxSeed, hook : {FALSE}, faults : {FALSE},
                  scenario : ScenariosOf(OtherRegions),
                  employed : EmployedValues] :
             st.employed # build_world(st.scenario).populations[0].employed}
    /\ world = build_world(settings.scenario)
    /\ rng = RngManager_new(settings.seed)
    /\ runB = [world |-> [build_world(settings.scenario) EXCEPT
                            !.populations[0].employed = settings.employed],
               rng |-> RngManager_new(settings.seed),
               snapshot |-> NoSnapshot]
    /\ eng = [pc |-> "loop", remaining |-> settings.ticks, sys_idx |-> 0,
              current_tick |-> 0, cause |-> "none",
              snapshot |-> NoSnapshot]
    /\ invoked = << >>
    /\ files = {}
    /\ web = [latest_frame |-> NoFrame, frames |-> << >>, sent |-> << >>,
              simulation_done |-> FALSE, final_frame |-> NoFrame,
              hook_calls |-> 0]
    /\ hist = [before |-> world, stream |-> seed_from_u64(settings.seed)]

SpecEmployed == InitEmployed /\ [][NextTwin]_vars

\* The world with the employed of every region blanked
LessEmployed(w) ==
    [w EXCEPT !.populations =
        [id \in DOMAIN w.populations |-> [w.populations[id] EXCEPT !.employed = 0]]]

\* Population has run in the tick
PopulationRan == \E i \in 1..Len(invoked) : invoked[i].name = "population"

\* C29: the employed of a region at the start of a tick has no effect on
\* the world after the tick.  Two worlds that differ only in employed, run
\* for one tick with the same seed and systems, draw the same values, differ
\* in nothing but employed while Environment and Infrastructure run, and
\* are identical from the Population step on, so also after the tick.
C29_EmployedForgotten ==
    /\ rng = runB.rng
    /\ LessEmployed(world) = LessEmployed(runB.world)
    /\ PopulationRan => world = runB.world
    /\ eng.pc = "done" => world = runB.world /\ eng.snapshot = runB.snapshot

\* Witness: the tick is over for two worlds of two regions that began with
\* different employed, neither of which is the value the tick has left
C29_Witness ==
    /\ eng.pc = "done"
    /\ world.tick = 1
    /\ world = runB.world
    /\ Cardinality(DOMAIN world.regions) = 2
    /\ world.populations[0].employed
         \notin {settings.employed,
                 build_world(settings.scenario).populations[0].employed}

---------------------------------------------------------------------------
(* web/mod.rs: the HTTP handlers beside the simulation task.  A handler    *)
(* reads the shared frame or frames under its lock, then loads             *)
(* simulation_done; the simulation task may take steps in between.         *)

\* No request is being served, no response has been sent
NoRequest == [pc |-> "idle", frame |-> NoFrame, frames |-> << >>]

NoResponse ==
    [kind |-> "none", frame |-> NoFrame, frames |-> << >>, completed |-> FALSE]

InitWeb ==
    /\ settings \in [ticks : 0..MaxTicks, t0 : 0..MaxT0,
                     snapshot_interval_ticks : {0}, seed : {0},
                     regions : {1}, dt_days : {Dec(1, 1)}, hook : {TRUE},
                     faults : {TRUE}]
    /\ world = [build_world(BaseScenario(settings.regions, settings.dt_days))
                   EXCEPT !.tick = settings.t0,
                          !.days_elapsed = settings.t0 * settings.dt_days]
    /\ rng = RngManager_new(settings.seed)
    /\ eng = [pc |-> "loop", remaining |-> settings.ticks, sys_idx |-> 0,
              current_tick |-> 0, cause |-> "none",
              snapshot |-> NoSnapshot]
    /\ invoked = << >>
    /\ files = {}
    /\ web = [latest_frame |-> NoFrame, frames |-> << >>, sent |-> << >>,
              simulation_done |-> FALSE, final_frame |-> NoFrame,
              hook_calls |-> 0, req |-> NoRequest, response |-> NoResponse]
    /\ runB = [rng |-> RngManager_new(settings.seed)]
    /\ hist = [before |-> world, stream |-> seed_from_u64(settings.seed)]

\* latest_state: let frame = state.latest_frame.lock().clone();
LatestStateFrame ==
    /\ web.req.pc = "idle"
    /\ web' = [web EXCEPT !.req = [pc |-> "state", frame |-> web.latest_frame,
                                   frames |-> << >>]]
    /\ UNCHANGED <<settings, world, rng, eng, invoked, files, runB, hist>>

\* latest_state: Json(StateEnvelope { frame, completed: simulation_done.load() })
LatestStateRespond ==
    /\ web.req.pc = "state"
    /\ web' = [web EXCEPT
                 !.response = [kind |-> "state", frame |-> web.req.frame,
                               frames |-> << >>,
                               completed |-> web.simulation_done],
                 !.req = NoRequest]
    /\ UNCHANGED <<settings, world, rng, eng, invoked, files, runB, hist>>

\* all_frames: let frames = state.frames.lock().clone();
AllFramesRead ==
    /\ web.req.pc = "idle"
    /\ web' = [web EXCEPT !.req = [pc |-> "frames", frame |-> NoFrame,
                                   frames |-> web.frames]]
    /\ UNCHANGED <<settings, world, rng, eng, invoked, files, runB, hist>>

\* all_frames: Json(FramesResponse { completed: simulation_done.load(), frames })
AllFramesRespond ==
    /\ web.req.pc = "frames"
    /\ web' = [web EXCEPT
                 !.response = [kind |-> "frames", frame |-> NoFrame,
                               frames |-> web.req.frames,
                               completed |-> web.simulation_done],
                 !.req = NoRequest]
    /\ UNCHANGED <<settings, world, rng, eng, invoked, files, runB, hist>>

NextWeb ==
    \/ BeginTick
    \/ RunSystem
    \/ AdvanceTime
    \/ MaybeWrite
    \/ CallHook
    \/ HookLatest
    \/ HookFrames
    \/ HookSend
    \/ Return
    \/ StoreDone
    \/ ReadFinal
    \/ PublishLatest
    \/ PublishFrames
    \/ SendFinal
    \/ LatestStateFrame
    \/ LatestStateRespond
    \/ AllFramesRead
    \/ AllFramesRespond

SpecWeb == InitWeb /\ [][NextWeb]_vars

\* The tick after the last tick of the run
FinalTick == settings.t0 + settings.ticks

\* The frame is flagged completed
Terminal(frame) == frame # NoFrame /\ frame.completed

\* The frames the embedding holds, has broadcast, or has put in a response
PublishedFrames ==
    {web.latest_frame, web.response.frame}
      \cup Elems(web.frames) \cup Elems(web.sent) \cup Elems(web.response.frames)

\* A frame flagged completed is published only for the final tick of the
\* run, once the run has returned Ok and simulation_done is set
CompletedOnlyAtEnd ==
    \A frame \in PublishedFrames :
        Terminal(frame) =>
            /\ frame.tick = FinalTick
            /\ web.simulation_done
            /\ eng.pc \in {"publish_latest", "publish_frames", "send_final",
                           "done"}

\* C30 as stated: a response of /api/state or /api/frames that reports
\* completed = true carries a terminal frame whose own completed flag is
\* true, and a frame with completed = true is published only for the final
\* tick of the run.
C30_Original ==
    /\ (web.response.kind = "state" /\ web.response.completed) =>
           Terminal(web.response.frame)
    /\ (web.response.kind = "frames" /\ web.response.completed) =>
           /\ web.response.frames # << >>
           /\ Terminal(web.response.frames[Len(web.response.frames)])
    /\ CompletedOnlyAtEnd

\* What the code does: simulation_done is stored before the terminal frame
\* is published, and a handler reads its frame before it loads the flag.
\* So a response that carries a frame flagged completed reports completed,
\* a response reports completed only once the run has returned Ok, and a
\* frame flagged completed is the frame of the final tick; the frames of a
\* response have increasing ticks and only the last may be flagged.
C30_FlagBeforeFrame ==
    /\ Terminal(web.response.frame) => web.response.completed
    /\ \A i \in 1..Len(web.response.frames) :
          /\ Terminal(web.response.frames[i]) =>
                web.response.completed /\ i = Len(web.response.frames)
          /\ i > 1 => web.response.frames[i - 1].tick < web.response.frames[i].tick
    /\ web.response.completed =>
          /\ web.simulation_done
          /\ world.tick = FinalTick
          /\ eng.remaining = 0
    /\ CompletedOnlyAtEnd

\* Witness: /api/state has answered completed = true with the frame of a
\* tick before the last, flagged false, which its handler had read before
\* the run ended
C30_Witness ==
    /\ web.response.kind = "state"
    /\ web.response.completed
    /\ web.response.frame # NoFrame
    /\ ~web.response.frame.completed
    /\ web.response.frame.tick < FinalTick

====
